---- MODULE Spec2Model ----
(***************************************************************************)
(* Token reader: the NFC reader session (tools/token-reader/src/nfc) and   *)
(* the state broadcast service (tools/token-reader/src/serve.ts,           *)
(* state-server.ts).                                                       *)
(*                                                                         *)
(* One action is one task of the Node.js event loop: a native callback or  *)
(* an API call, together with every promise continuation it triggers, up   *)
(* to the next point where the code waits for a native callback.           *)
(***************************************************************************)
EXTENDS Integers, Sequences, FiniteSets, TLC

(***************************************************************************)
(* Bounds of the model.                                                    *)
(***************************************************************************)
MaxOps == 2          \* asynchronous operations (detect sequences, vendor commands) per run

Procs == 1 .. MaxOps

(***************************************************************************)
(* Byte buffers are sequences of 0..255.                                   *)
(***************************************************************************)
RECURSIVE Concat(_)
Concat(chunks) ==
  IF chunks = <<>> THEN <<>> ELSE Head(chunks) \o Concat(Tail(chunks))

\* Buffer.subarray(from, to) with 0-based, end-exclusive indices, clamped
subarray(buf, from, to) ==
  LET t == IF to > Len(buf) THEN Len(buf) ELSE to
  IN  IF from >= t THEN <<>> ELSE SubSeq(buf, from + 1, t)

HexDigit == <<"0", "1", "2", "3", "4", "5", "6", "7",
              "8", "9", "a", "b", "c", "d", "e", "f">>

\* Buffer.toString("hex")
RECURSIVE toHex(_)
toHex(buf) ==
  IF buf = <<>> THEN ""
  ELSE HexDigit[(Head(buf) \div 16) + 1] \o HexDigit[(Head(buf) % 16) + 1]
         \o toHex(Tail(buf))

(***************************************************************************)
(* constants.ts                                                            *)
(***************************************************************************)
SW_SUCCESS == 36864                       \* 0x9000
PAGE_SIZE == 4
\* a chunk ceiling whose response does not fit the default response length
FAST_READ_MAX_PAGES_64 == PAGE_SIZE * 16
FAST_READ_MAX_PAGES == 60
DEFAULT_RESPONSE_MAX_LENGTH == 260
ATR_MIN_LENGTH == 10

CMD_GET_DATA_UID == <<255, 202, 0, 0, 0>>                 \* FF CA 00 00 00
CMD_GET_VERSION == <<255, 0, 0, 0, 3, 212, 66, 96>>       \* FF 00 00 00 03 D4 42 60
PCSC_RID == <<160, 0, 0, 3, 6>>                           \* A0 00 00 03 06

\* Buffer.from keeps the low eight bits of each element
lowByte(n) == n % 256

buildReadCommand(pageNumber, length) == <<255, 176, 0, lowByte(pageNumber), lowByte(length)>>

buildFastReadCommand(startPage, endPage) ==
  <<255, 0, 0, 0, 5, 212, 66, 58, lowByte(startPage), lowByte(endPage)>>

buildSetBuzzerOnDetectionCommand(enabled) ==
  <<255, 0, 82, IF enabled THEN 255 ELSE 0, 0>>

ACR122_CMD_GET_FIRMWARE == <<255, 0, 72, 0, 0>>
ACR122_CMD_GET_PICC == <<255, 0, 80, 0, 0>>
buildSetPiccCommand(param) == <<255, 0, 81, param, 0>>

buildLedBuzzerCommand(ledState, t1, t2, repetitions, buzzerBits) ==
  <<255, 0, 64, ledState, 4, t1, t2, repetitions, buzzerBits>>

\* (byte & mask) !== 0, for a mask of one bit
bitSet(byte, mask) == (byte \div mask) % 2 = 1

\* a parser that reads the two FeliCa flags from each other's bit
parsePiccParameterSwapped(byte) ==
  [autoPolling |-> bitSet(byte, 128),
   autoAtsGeneration |-> bitSet(byte, 64),
   shortPollingInterval |-> bitSet(byte, 32),
   detectFelica424K |-> bitSet(byte, 8),
   detectFelica212K |-> bitSet(byte, 16),
   detectIso14443B |-> bitSet(byte, 4),
   detectIso14443A |-> bitSet(byte, 2),
   detectMifare |-> bitSet(byte, 1)]

parsePiccParameter(byte) ==
  [autoPolling |-> bitSet(byte, 128),
   autoAtsGeneration |-> bitSet(byte, 64),
   shortPollingInterval |-> bitSet(byte, 32),
   detectFelica424K |-> bitSet(byte, 16),
   detectFelica212K |-> bitSet(byte, 8),
   detectIso14443B |-> bitSet(byte, 4),
   detectIso14443A |-> bitSet(byte, 2),
   detectMifare |-> bitSet(byte, 1)]

\* the flags are OR-ed into a zero byte, each into its own bit
buildPiccParameterByte(param) ==
  (IF param.autoPolling THEN 128 ELSE 0)
  + (IF param.autoAtsGeneration THEN 64 ELSE 0)
  + (IF param.shortPollingInterval THEN 32 ELSE 0)
  + (IF param.detectFelica424K THEN 16 ELSE 0)
  + (IF param.detectFelica212K THEN 8 ELSE 0)
  + (IF param.detectIso14443B THEN 4 ELSE 0)
  + (IF param.detectIso14443A THEN 2 ELSE 0)
  + (IF param.detectMifare THEN 1 ELSE 0)

parseLedStateByte(byte) == [red |-> bitSet(byte, 1), green |-> bitSet(byte, 2)]

getStatusWord(response) ==
  IF Len(response) < 2 THEN 0
  ELSE response[Len(response) - 1] * 256 + response[Len(response)]

getResponseData(response) ==
  IF Len(response) < 2 THEN <<>>
  ELSE subarray(response, 0, Len(response) - 2)

\* ATR_TAG_TYPE_MAP[key] ?? TagType.UNKNOWN
ATR_TAG_TYPE_MAP(key) ==
  CASE key = 1     -> "MIFARE_CLASSIC_1K"
    [] key = 2     -> "MIFARE_CLASSIC_4K"
    [] key = 3     -> "MIFARE_ULTRALIGHT"
    [] key = 38    -> "MIFARE_ULTRALIGHT_C"
    [] key = 58    -> "MIFARE_ULTRALIGHT_EV1"
    [] key = 48    -> "TOPAZ_512"
    [] key = 61444 -> "NTAG_213"
    [] key = 61445 -> "NTAG_215"
    [] key = 61447 -> "NTAG_216"
    [] key = 61457 -> "FELICA"
    [] key = 61458 -> "FELICA"
    [] key = 40    -> "JCOP_30"
    [] key = 56    -> "JCOP_31"
    [] OTHER       -> "UNKNOWN"

\* ATR_STANDARD_MAP[byte] ?? null
ATR_STANDARD_MAP(byte) ==
  CASE byte = 1  -> "ISO_14443_3"
    [] byte = 2  -> "ISO_14443_4"
    [] byte = 3  -> "ISO_14443_3"
    [] byte = 17 -> "ISO_14443_3"
    [] OTHER     -> "null"

\* a search that returns the last occurrence of the RID
findPcscRidLast(atr) ==
  LET hits == { i \in 0 .. (Len(atr) - Len(PCSC_RID)) :
                  subarray(atr, i, i + Len(PCSC_RID)) = PCSC_RID }
  IN  IF hits = {} THEN -1
      ELSE CHOOSE i \in hits : \A j \in hits : i >= j

\* index (0-based) of the first byte of the RID in the ATR, or -1
findPcscRid(atr) ==
  LET hits == { i \in 0 .. (Len(atr) - Len(PCSC_RID)) :
                  subarray(atr, i, i + Len(PCSC_RID)) = PCSC_RID }
  IN  IF hits = {} THEN -1
      ELSE CHOOSE i \in hits : \A j \in hits : i <= j

parseAtr(atr) ==
  IF Len(atr) < ATR_MIN_LENGTH
    THEN [standard |-> "null", type |-> "UNKNOWN"]
  ELSE LET ridIndex == findPcscRid(atr)
           ssIndex == ridIndex + Len(PCSC_RID)
           nnIndex == ssIndex + 1
       IN  IF ridIndex < 0 THEN [standard |-> "null", type |-> "UNKNOWN"]
           ELSE IF nnIndex + 1 >= Len(atr)
             THEN [standard |-> "null", type |-> "UNKNOWN"]
           ELSE [standard |-> ATR_STANDARD_MAP(atr[ssIndex + 1]),
                 type |-> ATR_TAG_TYPE_MAP(atr[nnIndex + 1] * 256 + atr[nnIndex + 2])]

\* VERSION_TAG_TYPE_MAP[key] ?? null
VERSION_TAG_TYPE_MAP(key) ==
  CASE key = 1030 -> "NTAG_210"
    [] key = 1034 -> "NTAG_212"
    [] key = 1039 -> "NTAG_213"
    [] key = 1041 -> "NTAG_215"
    [] key = 1043 -> "NTAG_216"
    [] key = 779  -> "MIFARE_ULTRALIGHT_EV1"
    [] key = 782  -> "MIFARE_ULTRALIGHT_EV1"
    [] OTHER      -> "null"

parseGetVersion(versionData) ==
  IF Len(versionData) < 7 THEN "null"
  ELSE VERSION_TAG_TYPE_MAP(versionData[3] * 256 + versionData[7])

NoRange == [startPage |-> 0, pageCount |-> 0]

\* TAG_DATA_RANGE[tagType]; NoRange stands for a missing entry
TAG_DATA_RANGE(tagType) ==
  CASE tagType = "NTAG_213" -> [startPage |-> 3, pageCount |-> 1 + 36]
    [] tagType = "NTAG_215" -> [startPage |-> 3, pageCount |-> 1 + 126]
    [] tagType = "NTAG_216" -> [startPage |-> 3, pageCount |-> 1 + 222]
    [] tagType = "NTAG_203" -> [startPage |-> 3, pageCount |-> 1 + 36]
    [] tagType = "NTAG_210" -> [startPage |-> 3, pageCount |-> 1 + 4]
    [] tagType = "NTAG_212" -> [startPage |-> 3, pageCount |-> 1 + 32]
    [] tagType = "MIFARE_ULTRALIGHT" -> [startPage |-> 3, pageCount |-> 1 + 12]
    [] tagType = "MIFARE_ULTRALIGHT_C" -> [startPage |-> 3, pageCount |-> 1 + 36]
    [] tagType = "MIFARE_ULTRALIGHT_EV1" -> [startPage |-> 3, pageCount |-> 1 + 36]
    [] OTHER -> NoRange

FAST_READ_TAG_TYPES ==
  {"NTAG_210", "NTAG_212", "NTAG_213", "NTAG_215", "NTAG_216", "MIFARE_ULTRALIGHT_EV1"}

(***************************************************************************)
(* errors.ts, result.ts.  An error is its class name plus the PC/SC        *)
(* markers that occur in its message and in the message of its cause: the  *)
(* classifiers below search these two messages for substrings.            *)
(***************************************************************************)
NoError == [name |-> "none", msg |-> {}, cause |-> {}, tagType |-> "", statusWord |-> 0]

NfcError(name, cause) ==
  [name |-> name, msg |-> {}, cause |-> cause, tagType |-> "", statusWord |-> 0]

ReaderClosedError == NfcError("ReaderClosedError", {})
CardRemovedError(cause) == NfcError("CardRemovedError", cause.msg)
ConnectError(cause) == NfcError("ConnectError", cause.msg)
DisconnectError(cause) == NfcError("DisconnectError", cause.msg)
TransmitError(cause) == NfcError("TransmitError", cause.msg)
NotConnectedError == NfcError("TransmitError", {})
ReadError(cause) == NfcError("ReadError", cause.msg)
ControlError(cause) == NfcError("ControlError", cause.msg)
ApduError(sw) == [NfcError("ApduError", {}) EXCEPT !.statusWord = sw]
UnsupportedTagError(tagType) == [NfcError("UnsupportedTagError", {}) EXCEPT !.tagType = tagType]

\* errors the pcsclite binding reports, by PC/SC return code
NativeCodes == {"SCARD_W_RESET_CARD", "SCARD_E_NO_SMARTCARD", "SCARD_E_OTHER"}

NativeError(code) ==
  [name |-> "Error",
   msg |-> CASE code = "SCARD_W_RESET_CARD" -> {"0x80100068", "card was reset"}
             [] code = "SCARD_E_NO_SMARTCARD" -> {"0x8010000c"}
             [] OTHER -> {},
   cause |-> {}, tagType |-> "", statusWord |-> 0]

\* a classifier that also takes the no-smartcard code for a reset
isCardResetOrNoSmartcard(error) ==
  LET msg == error.msg \cup error.cause
  IN  "0x80100068" \in msg \/ "card was reset" \in msg \/ "0x8010000c" \in msg

isCardResetError(error) ==
  LET msg == error.msg \cup error.cause
  IN  "0x80100068" \in msg \/ "card was reset" \in msg

isNoSmartcardError(error) ==
  LET msg == error.msg \cup error.cause
  IN  "0x8010000c" \in msg \/ "no smartcard" \in msg

Ok(value) == [ok |-> TRUE, value |-> value, error |-> NoError]
Err(error) == [ok |-> FALSE, value |-> <<>>, error |-> error]
NoResult == [ok |-> FALSE, value |-> <<>>, error |-> NoError]

(***************************************************************************)
(* The tags of the model and what they answer.  A tag that answers does so *)
(* in the response formats the reader code documents.                      *)
(***************************************************************************)
Tags == {"ntag213", "classic"}

AtrPrefix == <<59, 143, 128, 1, 128, 79, 12>>      \* 3B 8F 80 01 80 4F 0C

\* ATR of the tag; the NTAG213 is reported by name, the others as their family
TagAtr(tag) ==
  AtrPrefix \o PCSC_RID \o
    (CASE tag = "classic" -> <<3, 0, 1>>
       [] tag = "ntag213" -> <<3, 240, 4>>
       [] OTHER -> <<3, 0, 3>>) \o <<0, 0, 0, 0, 104>>

TagUid(tag) ==
  CASE tag = "ntag213" -> <<4, 161, 178, 195>>
    [] tag = "ultralight" -> <<4, 16, 32, 48>>
    [] OTHER -> <<222, 173, 190, 239>>

\* content of one page of the tag
TagPage(tag, page) ==
  LET base == IF tag = "ntag213" THEN 16 ELSE 128
  IN  <<base + page, base + page, base + page, base + page>>

RECURSIVE TagPages(_, _, _)
TagPages(tag, from, to) ==
  IF from > to THEN <<>> ELSE TagPage(tag, from) \o TagPages(tag, from + 1, to)

\* the response frame of a tag that answers the command
Respond(cmd, tag) ==
  IF cmd = CMD_GET_DATA_UID THEN TagUid(tag) \o <<144, 0>>
  ELSE IF cmd = CMD_GET_VERSION
    THEN (IF tag = "ntag213"
            THEN <<213, 67, 0>> \o <<0, 4, 4, 2, 1, 0, 15, 3>> \o <<144, 0>>
            ELSE <<213, 67, 1>> \o <<144, 0>>)
  ELSE IF Len(cmd) = 5 /\ cmd[2] = 176
    THEN subarray(TagPages(tag, cmd[4], cmd[4] + 3), 0, cmd[5]) \o <<144, 0>>
  ELSE IF Len(cmd) = 10 /\ cmd[8] = 58
    THEN <<213, 67, 0>> \o TagPages(tag, cmd[9], cmd[10]) \o <<144, 0>>
  ELSE <<144, 0>>

\* what a native transmit can call back with
TransmitOutcomes == {"answer", "status_6300"} \cup NativeCodes

\* what a native connect can call back with
ConnectOutcomes == {"protocol", "no_protocol"} \cup NativeCodes

\* what a native disconnect can call back with
DisconnectOutcomes == {"ok", "SCARD_E_OTHER"}

\* kind of a command frame, for the record of what an operation issued
CmdKind(cmd) ==
  IF cmd = CMD_GET_DATA_UID THEN "GET_DATA_UID"
  ELSE IF cmd = CMD_GET_VERSION THEN "GET_VERSION"
  ELSE IF Len(cmd) = 5 /\ cmd[2] = 176 THEN "READ_BINARY"
  ELSE IF Len(cmd) = 10 /\ cmd[8] = 58 THEN "FAST_READ"
  ELSE "VENDOR"

(***************************************************************************)
(* State.                                                                  *)
(***************************************************************************)
VARIABLES
  closed,        \* Reader._closed
  card,          \* Reader._card (NoCard for null)
  protocol,      \* Reader._protocol ("null", "T0", "T1")
  listeners,     \* event names with at least one listener on the session
  readerState,   \* state of the native reader, the flags of the last status event
  field,         \* the tag that answers commands sent through the reader
  ops,           \* the asynchronous operations of the session, by slot
  nativeCloses,  \* number of close() calls on the native reader
  nativeEnded,   \* the native reader has emitted 'end'
  endEmits,      \* number of emit("end") calls of the session
  crashed,       \* how an error escaped: "none", "uncaughtException", "unhandledRejection"
  emitted,       \* the emit calls of the last task, in order
  returned,      \* the Reader.transmit call that returned in the last task
  completed,     \* the operation that ended in the last task
  closeResult,   \* what Reader.close returned to its caller in the last task
  readerStates,      \* serve.ts: the live snapshot of createStateMessagePublisher
  lastStateMessage,  \* state-server.ts: lastStateMessage of serveWebSocket
  clients,           \* the WebSocket clients of the server: readyState and data sent
  published,         \* the messages given to emitter.emit, in order
  phase,             \* "serving", "closing" (shutdown has begun) or "stopped"
  events,            \* the reader events the listeners of handleReader have handled, in order
  nfc,               \* the discovery service: closed, and who listens for its readers
  exitCode,          \* what serve has returned (-1 until it returns)
  rd,                \* a data-page read: the operation, its requests and their replies
  discovery,         \* NFC.ts: the discovery service, its native layer and its sessions
  calc,              \* a function of constants.ts: its input and what it returned
  ee,                \* a TypedEventEmitter: its registrations and its last call
  control            \* serve.ts: reader control of the 'card' listeners of handleReader

sessionVars == <<closed, card, protocol, listeners, readerState, field, ops,
                 nativeCloses, nativeEnded, endEmits, crashed>>
taskVars == <<emitted, returned, completed, closeResult>>
serveVars == <<readerStates, lastStateMessage, clients, published, phase, events, nfc,
               exitCode>>
readVars == <<rd>>
unitVars == <<discovery, calc, ee, control>>
vars == <<sessionVars, taskVars, serveVars, readVars, unitVars>>

NoCard == [uid |-> "", data |-> <<>>, type |-> "null"]

\* events of ReaderEventMap
ReaderEvents == {"card.on", "card", "card.off", "error", "end"}

\* PC/SC reader state flags that take part in card detection
StatusStates == {{"EMPTY"}, {"PRESENT"}}

FreeOp ==
  [kind |-> "free", pc |-> "free", tret |-> "", cret |-> "",
   atr |-> <<>>, tagType |-> "null", uid |-> "",
   chunks |-> <<>>, currentStart |-> 0, currentPage |-> 0, remaining |-> 0,
   cmd |-> <<>>, trace |-> <<>>, result |-> NoResult, res |-> NoResult,
   conn |-> NoResult, issued |-> {}, out |-> NoResult, startedClosed |-> FALSE]

NoCall == [pid |-> 0, trace |-> <<>>, first |-> NoResult, res |-> NoResult]
NoOp == [pid |-> 0, kind |-> "free", out |-> NoResult, issued |-> {}, startedClosed |-> FALSE]

\* program points at which an operation waits for a native callback
Waiting == {"w_connect", "w_tx1", "w_disconnect", "w_tx2"}
Blocked == Waiting \cup {"free", "done"}

\* Reader.card getter
cardGetter ==
  IF closed THEN [ok |-> FALSE, value |-> NoCard, error |-> ReaderClosedError]
  ELSE [ok |-> TRUE, value |-> card, error |-> NoError]

(***************************************************************************)
(* TypedEventEmitter.emit on the session.  The wrapped Node.js emitter     *)
(* throws the error of an 'error' event that has no listener.              *)
(***************************************************************************)
Entry(event, c, error, src) ==
  [ev |-> event, card |-> c, error |-> error, src |-> src,
   delivered |-> event \in listeners]

emitThrows(event) == event = "error" /\ event \notin listeners

\* a detect sequence that reports a failure twice
emitErrorTwice(st, error) ==
  [st EXCEPT !.emitted = st.emitted \o <<Entry("error", NoCard, error, st.pid),
                                          Entry("error", NoCard, error, st.pid)>>,
             !.op.pc = "done"]

\* an emit("error") from inside handleCardInserted: a throw rejects the
\* promise of handleCardInserted, whose catch handler emits again
emitErrorInDetect(st, error) ==
  IF emitThrows("error")
    THEN [st EXCEPT !.emitted = st.emitted \o <<Entry("error", NoCard, error, st.pid),
                                                Entry("error", NoCard, error, st.pid)>>,
                    !.crashed = "unhandledRejection",
                    !.op.pc = "done"]
    ELSE [st EXCEPT !.emitted = Append(st.emitted, Entry("error", NoCard, error, st.pid)),
                    !.op.pc = "done"]

(***************************************************************************)
(* The code of an operation between two native callbacks.  st carries the  *)
(* operation (op, in slot pid) and the session fields it can change; pc    *)
(* names the statement reached.                                            *)
(***************************************************************************)
NativeCall(op, cmd) == [op |-> op, cmd |-> cmd, outcome |-> "pending"]

\* the native call an operation waits for has called back: the record keeps the
\* outcome of a transmit, whether a connect succeeded, and that a disconnect ended
calledBack(op, outcome) ==
  LET call == op.trace[Len(op.trace)]
  IN  [op EXCEPT !.trace[Len(op.trace)].outcome =
         IF call.op = "transmit" THEN outcome
         ELSE IF call.op = "disconnect" THEN "ended"
         ELSE IF outcome \in NativeCodes THEN "failed"
         ELSE "connected"]

\* return r from Reader.transmit to the caller waiting at tret
transmitReturn(st, r) ==
  [st EXCEPT !.op.res = r,
             !.returned = IF st.op.trace = <<>> THEN st.returned
                          ELSE [pid |-> st.pid, trace |-> st.op.trace,
                                first |-> st.op.result, res |-> r],
             !.op.trace = <<>>,
             !.op.result = NoResult,
             !.op.pc = st.op.tret]

isUltralightCompatible(baseType) ==
  baseType \in {"MIFARE_ULTRALIGHT", "MIFARE_ULTRALIGHT_C", "MIFARE_ULTRALIGHT_EV1"}

\* an identification that does not look at the PN532 status byte
identifyTagResultAnyStatus(baseType, res) ==
  IF ~res.ok THEN baseType
  ELSE IF getStatusWord(res.value) # SW_SUCCESS THEN baseType
  ELSE LET rawData == getResponseData(res.value)
       IN  IF Len(rawData) < 3 \/ rawData[1] # 213 \/ rawData[2] # 67 THEN baseType
           ELSE LET refinedType == parseGetVersion(subarray(rawData, 3, Len(rawData)))
                IN  IF refinedType # "null" THEN refinedType ELSE baseType

\* Reader.identifyTag after the GET VERSION transmit has returned res
identifyTagResult(baseType, res) ==
  IF ~res.ok THEN baseType
  ELSE IF getStatusWord(res.value) # SW_SUCCESS THEN baseType
  ELSE LET rawData == getResponseData(res.value)
       IN  IF Len(rawData) < 3 \/ rawData[1] # 213 \/ rawData[2] # 67 THEN baseType
           ELSE IF rawData[3] # 0 THEN baseType
           ELSE LET refinedType == parseGetVersion(subarray(rawData, 3, Len(rawData)))
                IN  IF refinedType # "null" THEN refinedType ELSE baseType

\* a session without its closed checks
neverClosed(isClosed) == FALSE

\* the closed check at the head of Reader.connect, disconnect, transmit and
\* transmitOnce and of every ACR122Reader command
closedGuard(isClosed) == isClosed

\* Reader.connect up to the native call
connectStep(st) ==
  IF closedGuard(closed)
    THEN [st EXCEPT !.op.conn = Err(ReaderClosedError), !.op.pc = st.op.cret]
    ELSE [st EXCEPT !.op.trace = Append(st.op.trace, NativeCall("connect", <<>>)),
                    !.op.issued = st.op.issued \cup {"connect"},
                    !.op.pc = "w_connect"]

\* Reader.disconnect up to the native call; transmit ignores its result
disconnectStep(st) ==
  IF closedGuard(closed)
    THEN [st EXCEPT !.op.pc = "reconnect"]
    ELSE [st EXCEPT !.op.trace = Append(st.op.trace, NativeCall("disconnect", <<>>)),
                    !.op.issued = st.op.issued \cup {"disconnect"},
                    !.op.pc = "w_disconnect"]

\* Reader.transmitOnce up to the native call; first tells which attempt
transmitOnceStep(st, first) ==
  LET immediate(r) == IF first THEN [st EXCEPT !.op.result = r, !.op.pc = "tx_checked"]
                      ELSE transmitReturn(st, r)
  IN  IF closedGuard(closed) THEN immediate(Err(ReaderClosedError))
      ELSE IF st.protocol = "null" THEN immediate(Err(NotConnectedError))
      ELSE [st EXCEPT !.op.trace = Append(st.op.trace, NativeCall("transmit", st.op.cmd)),
                      !.op.issued = st.op.issued \cup {CmdKind(st.op.cmd)},
                      !.op.pc = IF first THEN "w_tx1" ELSE "w_tx2"]

\* a transmit without the reset recovery
neverRetry(result) == FALSE

\* the test of Reader.transmit that sends the call into the reset recovery
needsResetRetry(result) == ~result.ok /\ isCardResetError(result.error)

\* what Reader.transmit does after the reconnect of the reset recovery
afterReconnect(reconnect) == IF ~reconnect.ok THEN "return" ELSE "tx2"

\* Reader.transmit
transmitStep(st) ==
  LET pc == st.op.pc
  IN  CASE pc = "transmit" ->
             IF closedGuard(closed)
               THEN [st EXCEPT !.op.res = Err(ReaderClosedError), !.op.pc = st.op.tret]
               ELSE [st EXCEPT !.op.trace = <<>>, !.op.result = NoResult, !.op.pc = "tx1"]
        [] pc = "tx1" -> transmitOnceStep(st, TRUE)
        [] pc = "tx_checked" ->
             IF needsResetRetry(st.op.result)
               THEN [st EXCEPT !.op.pc = "disconnect"]
               ELSE transmitReturn(st, st.op.result)
        [] pc = "disconnect" -> disconnectStep(st)
        [] pc = "reconnect" -> [st EXCEPT !.op.cret = "reconnected", !.op.pc = "connect"]
        [] pc = "reconnected" ->
             IF afterReconnect(st.op.conn) = "return"
               THEN transmitReturn(st, st.op.result)
               ELSE [st EXCEPT !.op.pc = "tx2"]
        [] pc = "tx2" -> transmitOnceStep(st, FALSE)

TransmitPcs == {"transmit", "tx1", "tx_checked", "disconnect", "reconnect", "reconnected", "tx2"}

\* a bulk read that asks for all remaining pages at once
chunkEndNoCeiling(currentStart, endPage) == endPage

\* last page of the FAST_READ request that starts at currentStart
chunkEnd(currentStart, endPage) ==
  IF currentStart + FAST_READ_MAX_PAGES - 1 < endPage
    THEN currentStart + FAST_READ_MAX_PAGES - 1 ELSE endPage

\* a read that wraps every failure of its transmit
readFailureWrapped(res) == Err(ReadError(res.error))

\* what a data-page read returns when its transmit has failed with res
readFailure(res) ==
  IF res.error.name = "CardRemovedError" THEN res ELSE Err(ReadError(res.error))

\* Reader.readDataPagesFastRead: one step of the chunk loop
fastReadStep(st) ==
  LET op == st.op
      range == TAG_DATA_RANGE(op.tagType)
      endPage == range.startPage + range.pageCount - 1
      totalBytes == range.pageCount * PAGE_SIZE
      currentEnd == chunkEnd(op.currentStart, endPage)
      rawData == getResponseData(op.res.value)
  IN  CASE op.pc = "fast_loop" ->
             IF op.currentStart <= endPage
               THEN [st EXCEPT !.op.cmd = buildFastReadCommand(op.currentStart, currentEnd),
                               !.op.tret = "fast_chunk", !.op.pc = "transmit"]
               ELSE [st EXCEPT !.op.out = Ok(subarray(Concat(op.chunks), 0, totalBytes)),
                               !.op.pc = "pages_read"]
        [] op.pc = "fast_chunk" ->
             IF ~op.res.ok
               THEN [st EXCEPT !.op.out = readFailure(op.res), !.op.pc = "pages_read"]
             ELSE IF getStatusWord(op.res.value) # SW_SUCCESS
               THEN [st EXCEPT !.op.out = Err(ReadError(NoError)), !.op.pc = "pages_read"]
             ELSE IF Len(rawData) < 3 \/ rawData[1] # 213 \/ rawData[2] # 67
               THEN [st EXCEPT !.op.out = Err(ReadError(NoError)), !.op.pc = "pages_read"]
             ELSE IF rawData[3] # 0
               THEN [st EXCEPT !.op.out = Err(ReadError(NoError)), !.op.pc = "pages_read"]
             ELSE [st EXCEPT !.op.chunks = Append(op.chunks, subarray(rawData, 3, Len(rawData))),
                             !.op.currentStart = currentEnd + 1,
                             !.op.pc = "fast_loop"]

\* Reader.readDataPagesSequential: one step of the page loop
sequentialReadStep(st) ==
  LET op == st.op
      range == TAG_DATA_RANGE(op.tagType)
      totalBytes == range.pageCount * PAGE_SIZE
      chunkSize == IF op.remaining < PAGE_SIZE THEN op.remaining ELSE PAGE_SIZE
  IN  CASE op.pc = "seq_loop" ->
             IF op.remaining > 0
               THEN [st EXCEPT !.op.cmd = buildReadCommand(op.currentPage, chunkSize),
                               !.op.tret = "seq_chunk", !.op.pc = "transmit"]
               ELSE [st EXCEPT !.op.out = Ok(subarray(Concat(op.chunks), 0, totalBytes)),
                               !.op.pc = "pages_read"]
        [] op.pc = "seq_chunk" ->
             IF ~op.res.ok
               THEN [st EXCEPT !.op.out = readFailure(op.res), !.op.pc = "pages_read"]
             ELSE IF getStatusWord(op.res.value) # SW_SUCCESS
               THEN [st EXCEPT !.op.out = Err(ReadError(NoError)), !.op.pc = "pages_read"]
             ELSE [st EXCEPT !.op.chunks = Append(op.chunks, getResponseData(op.res.value)),
                             !.op.remaining = op.remaining - chunkSize,
                             !.op.currentPage = op.currentPage + 1,
                             !.op.pc = "seq_loop"]

\* Reader.handleCardInserted, with identifyTag, getUid and readDataPages
handleCardInsertedStep(st) ==
  LET op == st.op
      baseType == parseAtr(op.atr).type
      range == TAG_DATA_RANGE(op.tagType)
      sw == getStatusWord(op.res.value)
      newCard == [uid |-> op.uid, data |-> op.out.value, type |-> op.tagType]
  IN  CASE op.pc = "hci_start" -> [st EXCEPT !.op.cret = "hci_connected", !.op.pc = "connect"]
        [] op.pc = "hci_connected" ->
             IF ~op.conn.ok THEN emitErrorInDetect(st, op.conn.error)
             ELSE [st EXCEPT !.op.pc = "identify"]
        [] op.pc = "identify" ->
             IF ~isUltralightCompatible(baseType)
               THEN [st EXCEPT !.op.tagType = baseType, !.op.pc = "hci_range"]
               ELSE [st EXCEPT !.op.cmd = CMD_GET_VERSION,
                               !.op.tret = "identified", !.op.pc = "transmit"]
        [] op.pc = "identified" ->
             [st EXCEPT !.op.tagType = identifyTagResult(baseType, op.res),
                        !.op.pc = "hci_range"]
        [] op.pc = "hci_range" ->
             IF range = NoRange THEN emitErrorInDetect(st, UnsupportedTagError(op.tagType))
             ELSE [st EXCEPT !.op.cmd = CMD_GET_DATA_UID,
                             !.op.tret = "uid_read", !.op.pc = "transmit"]
        [] op.pc = "uid_read" ->
             IF ~op.res.ok THEN emitErrorInDetect(st, op.res.error)
             ELSE IF sw # SW_SUCCESS THEN emitErrorInDetect(st, ApduError(sw))
             ELSE [st EXCEPT !.op.uid = toHex(getResponseData(op.res.value)),
                             !.op.pc = "read_pages"]
        [] op.pc = "read_pages" ->
             IF op.tagType \in FAST_READ_TAG_TYPES
               THEN [st EXCEPT !.op.chunks = <<>>,
                               !.op.currentStart = range.startPage,
                               !.op.pc = "fast_loop"]
               ELSE [st EXCEPT !.op.chunks = <<>>,
                               !.op.remaining = range.pageCount * PAGE_SIZE,
                               !.op.currentPage = range.startPage,
                               !.op.pc = "seq_loop"]
        [] op.pc = "pages_read" ->
             IF ~op.out.ok THEN emitErrorInDetect(st, op.out.error)
             ELSE [st EXCEPT !.card = newCard,
                             !.emitted = Append(st.emitted,
                                                Entry("card", newCard, NoError, st.pid)),
                             !.op.pc = "done"]

\* ACR122Reader.setBuzzerOnCardDetection(false)
setBuzzerOnCardDetectionStep(st) ==
  LET op == st.op
  IN  CASE op.pc = "vendor" ->
             IF closedGuard(closed)
               THEN [st EXCEPT !.op.out = Err(ReaderClosedError), !.op.pc = "done"]
             ELSE [st EXCEPT !.op.cmd = buildSetBuzzerOnDetectionCommand(FALSE),
                             !.op.tret = "vendor_sent", !.op.pc = "transmit"]
        [] op.pc = "vendor_sent" ->
             [st EXCEPT !.op.out = IF ~op.res.ok
                                     THEN (IF op.res.error.name = "CardRemovedError" THEN op.res
                                           ELSE Err(ControlError(op.res.error)))
                                     ELSE Ok(<<>>),
                        !.op.pc = "done"]

\* Buffer.toString("ascii") of a response, with the NUL characters removed
asciiWithoutNul(value) ==
  SelectSeq([i \in DOMAIN value |-> value[i] % 128], LAMBDA b : b # 0)

\* ledBuzzer: the LED state byte and the buzzer byte of its options
NoLed == [given |-> FALSE, on |-> FALSE, blink |-> FALSE, finalOn |-> FALSE]
NoLedBuzzerOptions ==
  [red |-> NoLed, green |-> NoLed, t1Duration |-> 0, t2Duration |-> 0, repetitions |-> 0,
   buzzerOnT1 |-> FALSE, buzzerOnT2 |-> FALSE]

ledStateByte(options) ==
  (IF options.red.given
     THEN 64 + (IF options.red.on THEN 1 ELSE 0) + (IF options.red.blink THEN 4 ELSE 0)
             + (IF options.red.finalOn THEN 16 ELSE 0)
     ELSE 0)
  + (IF options.green.given
       THEN 128 + (IF options.green.on THEN 2 ELSE 0) + (IF options.green.blink THEN 8 ELSE 0)
                + (IF options.green.finalOn THEN 32 ELSE 0)
       ELSE 0)

buzzerBits(options) ==
  (IF options.buzzerOnT1 THEN 1 ELSE 0) + (IF options.buzzerOnT2 THEN 2 ELSE 0)

PiccCommands == {"getPiccOperatingParameter", "setPiccOperatingParameter"}
LedCommands == {"ledBuzzer", "getLedState"}

\* a transmit failure as every ACR122Reader command returns it, and a
\* variant that wraps every failure
controlFailureWrapped(res) == Err(ControlError(res.error))

controlFailure(res) ==
  IF res.error.name = "CardRemovedError" THEN res ELSE Err(ControlError(res.error))

\* getFirmwareVersion, getPiccOperatingParameter, setPiccOperatingParameter,
\* ledBuzzer and getLedState of ACR122Reader; st.arg is the argument
acr122CommandStep(st) ==
  LET op == st.op
  IN  CASE op.pc = "acr" ->
             IF closedGuard(closed)
               THEN [st EXCEPT !.op.out = Err(ReaderClosedError), !.op.pc = "done"]
             ELSE [st EXCEPT
                     !.op.cmd =
                       CASE op.kind = "getFirmwareVersion" -> ACR122_CMD_GET_FIRMWARE
                         [] op.kind = "getPiccOperatingParameter" -> ACR122_CMD_GET_PICC
                         [] op.kind = "setPiccOperatingParameter" ->
                              buildSetPiccCommand(buildPiccParameterByte(st.arg))
                         [] OTHER ->
                              buildLedBuzzerCommand(ledStateByte(st.arg), st.arg.t1Duration,
                                                    st.arg.t2Duration, st.arg.repetitions,
                                                    buzzerBits(st.arg)),
                     !.op.tret = "acr_sent", !.op.pc = "transmit"]
        [] op.pc = "acr_sent" ->
             [st EXCEPT
                !.op.out =
                  IF ~op.res.ok THEN controlFailure(op.res)
                  ELSE IF op.kind = "getFirmwareVersion" THEN Ok(asciiWithoutNul(op.res.value))
                  ELSE IF Len(op.res.value) < 2 THEN Err(NfcError("ControlError", {}))
                  ELSE IF op.kind \in PiccCommands
                    THEN Ok(parsePiccParameter(op.res.value[2]))
                  ELSE Ok(parseLedStateByte(op.res.value[2])),
                !.op.pc = "done"]

MicroStep(st) ==
  LET pc == st.op.pc
  IN  CASE pc = "connect" -> connectStep(st)
        [] pc \in TransmitPcs -> transmitStep(st)
        [] pc \in {"fast_loop", "fast_chunk"} -> fastReadStep(st)
        [] pc \in {"seq_loop", "seq_chunk"} -> sequentialReadStep(st)
        [] pc \in {"vendor", "vendor_sent"} -> setBuzzerOnCardDetectionStep(st)
        [] pc \in {"acr", "acr_sent"} -> acr122CommandStep(st)
        [] OTHER -> handleCardInsertedStep(st)

\* run the operation to its next native call or to its end
RECURSIVE Run(_)
Run(st) == IF st.op.pc \in Blocked THEN st ELSE Run(MicroStep(st))

Ctx(p, op) ==
  [op |-> op, pid |-> p, protocol |-> protocol, card |-> card, emitted |-> <<>>,
   returned |-> NoCall, crashed |-> crashed]

\* the local variables of an operation that its remaining code can still read
Live(op) ==
  IF op.pc = "done" THEN [FreeOp EXCEPT !.kind = op.kind, !.pc = "done"]
  ELSE [op EXCEPT !.res = NoResult, !.conn = NoResult]

Summary(p, op) ==
  IF op.pc = "done"
    THEN [pid |-> p, kind |-> op.kind, out |-> op.out, issued |-> op.issued,
          startedClosed |-> op.startedClosed]
    ELSE NoOp

\* the operations that can still resume after the task: none once the process has ended
Pending(st) ==
  IF st.crashed # "none" THEN [p \in Procs |-> FreeOp]
  ELSE [ops EXCEPT ![st.pid] = Live(st.op)]

\* run the operation of st0 on and store what it changed
Resume(st0) ==
  LET st == Run(st0)
  IN  /\ ops' = Pending(st)
      /\ protocol' = st.protocol
      /\ card' = st.card
      /\ crashed' = st.crashed
      /\ emitted' = st.emitted
      /\ returned' = st.returned
      /\ completed' = Summary(st.pid, st.op)

FreeSlots == { p \in Procs : ops[p].kind = "free" }
NextSlot == CHOOSE p \in FreeSlots : \A q \in FreeSlots : p <= q

(***************************************************************************)
(* Actions of the reader session.  The process ends when an error escapes  *)
(* as an uncaught exception or an unhandled rejection.                     *)
(***************************************************************************)
InitReader ==
  /\ closed = FALSE
  /\ card = NoCard
  /\ protocol = "null"
  /\ listeners \in {ReaderEvents, {"end"}}   \* a reader bound to a role, or an ignored one
  /\ readerState = {}
  /\ field = "none"
  /\ ops = [p \in Procs |-> FreeOp]
  /\ nativeCloses = 0
  /\ nativeEnded = FALSE
  /\ endEmits = 0
  /\ crashed = "none"
  /\ emitted = <<>>
  /\ returned = NoCall
  /\ completed = NoOp
  /\ closeResult = NoResult

running == crashed = "none"

\* the native reader delivers status and error events until it is closed or has ended
nativeLive == nativeCloses = 0 /\ ~nativeEnded

\* a removal that looks at the recorded card after it has cleared it
cardOffAfterClear(previousCard) == <<>>

\* the card.off of the 'status' listener for the card it found recorded
cardOff(previousCard) ==
  IF previousCard # NoCard THEN <<Entry("card.off", previousCard, NoError, 0)>> ELSE <<>>

\* 'status' listener of setupStatusHandler
Status(new, tag) ==
  LET changes == (readerState \ new) \cup (new \ readerState)
      inserted == "PRESENT" \in changes /\ "PRESENT" \in new
      removed == "EMPTY" \in changes /\ "EMPTY" \in new
      detect == [FreeOp EXCEPT !.kind = "detect", !.pc = "hci_start", !.atr = TagAtr(tag)]
      st == IF inserted
              THEN Run([Ctx(NextSlot, detect) EXCEPT
                          !.emitted = <<Entry("card.on", NoCard, NoError, 0)>>])
              ELSE Ctx(0, FreeOp)
      previousCard == st.card
  IN  /\ running
      /\ nativeLive
      /\ changes # {}
      /\ inserted => FreeSlots # {}
      /\ IF inserted THEN tag \in Tags ELSE tag = field
      /\ ops' = IF inserted THEN Pending(st) ELSE ops
      /\ crashed' = st.crashed
      /\ card' = IF removed THEN NoCard ELSE st.card
      /\ protocol' = IF removed THEN "null" ELSE st.protocol
      /\ emitted' = IF removed THEN st.emitted \o cardOff(previousCard) ELSE st.emitted
      /\ returned' = st.returned
      /\ completed' = IF inserted THEN Summary(st.pid, st.op) ELSE NoOp
      /\ closeResult' = NoResult
      /\ readerState' = new
      /\ field' = tag
      /\ UNCHANGED <<closed, listeners, nativeCloses, nativeEnded, endEmits>>

\* what Reader.connect resolves with when the native connect calls back
connectResult(outcome) ==
  IF outcome \in NativeCodes
    THEN (IF isNoSmartcardError(NativeError(outcome))
            THEN Err(CardRemovedError(NativeError(outcome)))
            ELSE Err(ConnectError(NativeError(outcome))))
    ELSE Ok(<<>>)

\* callback of reader.connect in Reader.connect
ConnectCallback(p, outcome) ==
  LET op == ops[p]
      proto == IF outcome = "protocol" THEN "T1"
               ELSE IF outcome = "no_protocol" /\ protocol = "null" THEN "T1"
               ELSE protocol
  IN  /\ running
      /\ op.pc = "w_connect"
      /\ Resume([Ctx(p, [calledBack(op, outcome) EXCEPT !.conn = connectResult(outcome),
                                                         !.pc = op.cret])
                   EXCEPT !.protocol = proto])
      /\ closeResult' = NoResult
      /\ UNCHANGED <<closed, listeners, readerState, field, nativeCloses, nativeEnded,
                     endEmits>>

\* callback of reader.disconnect in Reader.disconnect
DisconnectCallback(p, outcome) ==
  LET op == ops[p]
      proto == IF outcome = "ok" THEN "null" ELSE protocol
  IN  /\ running
      /\ op.pc = "w_disconnect"
      /\ Resume([Ctx(p, [calledBack(op, outcome) EXCEPT !.pc = "reconnect"])
                   EXCEPT !.protocol = proto])
      /\ closeResult' = NoResult
      /\ UNCHANGED <<closed, listeners, readerState, field, nativeCloses, nativeEnded,
                     endEmits>>

\* what Reader.transmitOnce resolves with when the native transmit calls back
transmitOnceResult(outcome, cmd) ==
  IF outcome \in NativeCodes
    THEN (IF isNoSmartcardError(NativeError(outcome))
            THEN Err(CardRemovedError(NativeError(outcome)))
            ELSE Err(TransmitError(NativeError(outcome))))
  ELSE IF outcome = "answer" THEN Ok(Respond(cmd, field))
  ELSE Ok(<<99, 0>>)

\* callback of reader.transmit in Reader.transmitOnce
TransmitCallback(p, outcome) ==
  LET op == calledBack(ops[p], outcome)
      r == transmitOnceResult(outcome, op.cmd)
  IN  /\ running
      /\ ops[p].pc \in {"w_tx1", "w_tx2"}
      /\ IF op.pc = "w_tx1"
           THEN Resume(Ctx(p, [op EXCEPT !.result = r, !.pc = "tx_checked"]))
           ELSE Resume(transmitReturn(Ctx(p, op), r))
      /\ closeResult' = NoResult
      /\ UNCHANGED <<closed, listeners, readerState, field, nativeCloses, nativeEnded,
                     endEmits>>

\* 'error' listener of setupErrorHandler
NativeErrorEvent(code) ==
  /\ running
  /\ nativeLive
  /\ emitted' = <<Entry("error", NoCard, NativeError(code), 0)>>
  /\ crashed' = IF emitThrows("error") THEN "uncaughtException" ELSE crashed
  /\ returned' = NoCall
  /\ completed' = NoOp
  /\ closeResult' = NoResult
  /\ ops' = IF emitThrows("error") THEN [p \in Procs |-> FreeOp] ELSE ops
  /\ UNCHANGED <<closed, card, protocol, listeners, readerState, field,
                 nativeCloses, nativeEnded, endEmits>>

\* Reader.close on a session that is not closed
closeOpen ==
  /\ nativeCloses' = nativeCloses + 1
  /\ closed' = TRUE
  /\ card' = NoCard
  /\ protocol' = "null"
  /\ emitted' = <<Entry("end", NoCard, NoError, 0)>>
  /\ endEmits' = endEmits + 1
  /\ listeners' = {}

\* Reader.close called by a user of the session
Close ==
  /\ running
  /\ IF closedGuard(closed)
       THEN /\ closeResult' = Err(ReaderClosedError)
            /\ emitted' = <<>>
            /\ UNCHANGED <<closed, card, protocol, listeners, nativeCloses, endEmits>>
       ELSE /\ closeOpen
            /\ closeResult' = Ok(<<>>)
  /\ returned' = NoCall
  /\ completed' = NoOp
  /\ UNCHANGED <<readerState, field, ops, nativeEnded, crashed>>

\* an 'end' listener that closes without looking at the closed flag
NativeEndUnguarded ==
  /\ running
  /\ ~nativeEnded
  /\ nativeEnded' = TRUE
  /\ closeOpen
  /\ returned' = NoCall
  /\ completed' = NoOp
  /\ closeResult' = NoResult
  /\ UNCHANGED <<readerState, field, ops, crashed>>

\* 'end' listener of setupEndHandler
NativeEnd ==
  /\ running
  /\ ~nativeEnded
  /\ nativeEnded' = TRUE
  /\ IF ~closed THEN closeOpen
     ELSE /\ emitted' = <<>>
          /\ UNCHANGED <<closed, card, protocol, listeners, nativeCloses, endEmits>>
  /\ returned' = NoCall
  /\ completed' = NoOp
  /\ closeResult' = NoResult
  /\ UNCHANGED <<readerState, field, ops, crashed>>

\* a user of the session calls ACR122Reader.setBuzzerOnCardDetection(false)
VendorCall ==
  LET op == [FreeOp EXCEPT !.kind = "vendor", !.pc = "vendor", !.startedClosed = closed]
  IN  /\ running
      /\ FreeSlots # {}
      /\ Resume(Ctx(NextSlot, op))
      /\ closeResult' = NoResult
      /\ UNCHANGED <<closed, listeners, readerState, field, nativeCloses, nativeEnded,
                     endEmits>>

(***************************************************************************)
(* A data-page read on its own: Reader.readDataPages against every reply   *)
(* Reader.transmit can return to it.                                       *)
(***************************************************************************)
MaxOdd == 1          \* replies of one read that carry fewer or more bytes than requested

\* the families with an entry in TAG_DATA_RANGE
ReadTagTypes ==
  {"NTAG_213", "NTAG_215", "NTAG_216", "NTAG_203", "NTAG_210", "NTAG_212",
   "MIFARE_ULTRALIGHT", "MIFARE_ULTRALIGHT_C", "MIFARE_ULTRALIGHT_EV1"}

\* replies with a success status word, and the others
OddReplies == {"short", "long"}
SuccessReplies == {"exact"} \cup OddReplies
FailureReplies == {"status_6300", "no_prefix", "pn532_error", "removed", "failed", "closed"}

\* the replies transmit can return for a command: a FAST_READ is answered in a
\* buffer of the requested size and in the pass-through format
RepliesTo(cmd) ==
  IF CmdKind(cmd) = "FAST_READ"
    THEN (SuccessReplies \ {"long"}) \cup FailureReplies
    ELSE SuccessReplies \cup (FailureReplies \ {"no_prefix", "pn532_error"})

\* what Reader.transmit returns for a reply of the given kind
transmitReply(kind, cmd) ==
  LET frame == Respond(cmd, "ntag213")
      data == getResponseData(frame)
  IN  CASE kind = "exact" -> Ok(frame)
        [] kind = "short" -> Ok(subarray(data, 0, Len(data) - PAGE_SIZE) \o <<144, 0>>)
        [] kind = "long" -> Ok(data \o TagPage("ntag213", 0) \o <<144, 0>>)
        [] kind = "status_6300" -> Ok(<<99, 0>>)
        [] kind = "no_prefix" -> Ok(<<213, 68, 0>> \o subarray(data, 3, Len(data)) \o <<144, 0>>)
        [] kind = "pn532_error" -> Ok(<<213, 67, 1, 144, 0>>)
        [] kind = "removed" -> Err(CardRemovedError(NativeError("SCARD_E_NO_SMARTCARD")))
        [] kind = "failed" -> Err(TransmitError(NativeError("SCARD_E_OTHER")))
        [] OTHER -> Err(ReaderClosedError)

NoRead == [op |-> FreeOp, requests |-> <<>>, replies |-> <<>>]

InitRead == rd = NoRead

\* run the read to its next transmit or to its end
RECURSIVE RunRead(_)
RunRead(st) ==
  IF st.op.pc \in {"transmit", "pages_read"} THEN st ELSE RunRead(MicroStep(st))

\* the read as it waits for transmit, or as it has ended
Suspended(st, replies) ==
  [op |-> Live(st.op),
   requests |-> IF st.op.pc = "transmit" THEN Append(rd.requests, st.op.cmd)
                ELSE rd.requests,
   replies |-> replies]

\* readDataPages(tagType), up to its first transmit
ReadStart(tagType) ==
  /\ rd.op.pc \in {"free", "pages_read"}
  /\ LET op == [FreeOp EXCEPT !.kind = "read", !.tagType = tagType, !.pc = "read_pages"]
         st == RunRead([op |-> op])
     IN  rd' = [op |-> Live(st.op),
                requests |-> IF st.op.pc = "transmit" THEN <<st.op.cmd>> ELSE <<>>,
                replies |-> <<>>]

\* transmit returns to the read, which runs on to its next transmit or to its end
ReadReply(kind) ==
  /\ rd.op.pc = "transmit"
  /\ kind \in RepliesTo(rd.op.cmd)
  /\ kind \in OddReplies =>
       Cardinality({ i \in DOMAIN rd.replies : rd.replies[i] \in OddReplies }) < MaxOdd
  /\ LET op == [rd.op EXCEPT !.res = transmitReply(kind, rd.op.cmd), !.pc = rd.op.tret]
     IN  rd' = Suspended(RunRead([op |-> op]), Append(rd.replies, kind))

NextRead ==
  \/ \E tagType \in ReadTagTypes :
       ReadStart(tagType) /\ UNCHANGED <<sessionVars, taskVars, serveVars, unitVars>>
  \/ \E kind \in SuccessReplies \cup FailureReplies :
       ReadReply(kind) /\ UNCHANGED <<sessionVars, taskVars, serveVars, unitVars>>

(***************************************************************************)
(* State broadcast service: serve.ts and state-server.ts.  A JavaScript    *)
(* object is a record with the sequence of its property names (props); a   *)
(* property without a value holds Undefined.  A JSON text is the sequence  *)
(* of its tokens.                                                          *)
(***************************************************************************)
MaxClients == 2      \* WebSocket clients connected at the same time
MaxPublishes == 2    \* state changes published in a run

Clients == 1 .. MaxClients
ReaderRoles == {"challenge", "inventory"}
Undefined == "undefined"

TokenStateType(member) ==
  CASE member = "ABSENT" -> "absent"
    [] member = "READING" -> "reading"
    [] member = "PRESENT" -> "present"
    [] member = "ERROR" -> "error"
    [] OTHER -> Undefined

\* a member that the enum does not define evaluates to undefined
TokenErrorTypeNFC(member) ==
  IF member \in {"UNKNOWN_ERROR", "READ_INTERRUPTED", "DATA_INVALID"} THEN member
  ELSE Undefined

NoToken == [id |-> Undefined, class |-> Undefined]
NoTokenError == [type |-> Undefined, details |-> Undefined]

AbsentState ==
  [props |-> <<"state">>, state |-> TokenStateType("ABSENT"),
   token |-> NoToken, error |-> NoTokenError]
ReadingState ==
  [props |-> <<"state">>, state |-> TokenStateType("READING"),
   token |-> NoToken, error |-> NoTokenError]
PresentState(token) ==
  [props |-> <<"state", "token">>, state |-> TokenStateType("PRESENT"),
   token |-> token, error |-> NoTokenError]
ErrorState(type, details) ==
  [props |-> <<"state", "error">>, state |-> TokenStateType("ERROR"),
   token |-> NoToken, error |-> [type |-> type, details |-> details]]

\* an initial state in which a role is not absent
createInitialStateReading == [challenge |-> ReadingState, inventory |-> AbsentState]

createInitialState == [challenge |-> AbsentState, inventory |-> AbsentState]

\* what CapabilityContainer.decode makes of the bytes of the cards of the model
Decodings == {"throws", "uri_record", "text_record"}
TokenClass == "skill"

\* decodeData on bytes with the given decoding
decodeData(decoding) ==
  CASE decoding = "throws" ->
         [ok |-> FALSE, value |-> Undefined, error |-> "Could not decode NDEF message"]
    [] decoding = "no_records" ->
         [ok |-> FALSE, value |-> Undefined, error |-> "No NDEF Records found on card."]
    [] decoding = "uri_record" ->
         [ok |-> FALSE, value |-> Undefined, error |-> "NDEF record type should be 'text'"]
    [] OTHER -> [ok |-> TRUE, value |-> TokenClass, error |-> Undefined]

\* JSON.stringify of a property: one with the value undefined is left out
jsonProperty(key, value) == IF value = Undefined THEN <<>> ELSE <<key, value>>

\* JSON.stringify of a TokenStateNFC
RECURSIVE jsonTokenState(_, _)
jsonTokenState(s, i) ==
  IF i > Len(s.props) THEN <<>>
  ELSE (CASE s.props[i] = "state" -> jsonProperty("state", s.state)
          [] s.props[i] = "token" ->
               <<"token", "{">> \o jsonProperty("id", s.token.id)
                 \o jsonProperty("class", s.token.class) \o <<"}">>
          [] s.props[i] = "error" ->
               <<"error", "{">> \o jsonProperty("type", s.error.type)
                 \o jsonProperty("details", s.error.details) \o <<"}">>)
       \o jsonTokenState(s, i + 1)

\* JSON.stringify of a StateMessage
JSONstringify(message) ==
  <<"{">>
    \o (IF "challenge" \in DOMAIN message
          THEN <<"challenge", "{">> \o jsonTokenState(message.challenge, 1) \o <<"}">>
          ELSE <<>>)
    \o (IF "inventory" \in DOMAIN message
          THEN <<"inventory", "{">> \o jsonTokenState(message.inventory, 1) \o <<"}">>
          ELSE <<>>)
    \o <<"}">>

\* A snapshot object as its holders see it.  emit changes the live snapshot of
\* createStateMessagePublisher in place, so a holder of that object sees every
\* later change; an object of its own is never changed.
TheLiveObject == [live |-> TRUE, value |-> createInitialState]
ObjectOf(value) == [live |-> FALSE, value |-> value]

\* the snapshot a holder of the object reads
Deref(object) == IF object.live THEN readerStates ELSE object.value

\* a publisher that hands out the live snapshot itself
noClone(value) == TheLiveObject

\* structuredClone of a snapshot that holds value: an object of its own
structuredClone(value) == ObjectOf(value)

\* closeCode: the code of the close the server has sent (0: none)
NoClient == [readyState |-> "NONE", sent |-> <<>>, joined |-> 0, closeCode |-> 0]

InitServe ==
  /\ readerStates = createInitialState
  /\ lastStateMessage = ObjectOf(createInitialState)
  /\ clients = [c \in Clients |-> NoClient]
  /\ published = <<>>
  /\ phase = "serving"
  /\ events = <<>>
  /\ nfc = [closed |-> FALSE, readerListeners |-> {"handleReader"}]
  /\ exitCode = -1

\* broadcast of state-server.ts
broadcast(message) ==
  LET data == JSONstringify(message)
  IN  [c \in Clients |->
         IF clients[c].readyState = "OPEN"
           THEN [clients[c] EXCEPT !.sent = Append(clients[c].sent, data)]
           ELSE clients[c]]

\* the message emit publishes for a change of one role, were it a delta
delta(states, role) ==
  IF role = "challenge" THEN ObjectOf([challenge |-> states.challenge])
  ELSE ObjectOf([inventory |-> states.inventory])

\* the message emit publishes for a change of one role
snapshot(states, role) == structuredClone(states)

\* emit of handleReader, with the subscriber of serveWebSocket
emit(role, state) ==
  LET states == [readerStates EXCEPT ![role] = state]
      message == snapshot(states, role)
      seen == IF message.live THEN states ELSE message.value
  IN  /\ Len(published) < MaxPublishes
      /\ readerStates' = states
      /\ published' = Append(published, message)
      /\ IF phase # "stopped"
           THEN /\ lastStateMessage' = message
                /\ clients' = broadcast(seen)
           ELSE UNCHANGED <<lastStateMessage, clients>>
      /\ UNCHANGED <<phase, nfc, exitCode>>

\* a reader event as a listener of handleReader receives it
Event(role, ev, uid, decoding, error) ==
  [role |-> role, ev |-> ev, uid |-> uid, decoding |-> decoding, error |-> error]

\* 'card.on' listener of handleReader
CardOn(role) ==
  /\ emit(role, ReadingState)
  /\ events' = Append(events, Event(role, "card.on", "", "", NoError))

\* 'card' listener of handleReader, up to its first await
CardRead(role, uid, decoding) ==
  LET decodeDataResult == decodeData(decoding)
  IN  /\ IF ~decodeDataResult.ok
           THEN emit(role, ErrorState(TokenErrorTypeNFC("DATA_INVALID"),
                                      decodeDataResult.error))
           ELSE emit(role, PresentState([id |-> uid, class |-> decodeDataResult.value]))
      /\ events' = Append(events, Event(role, "card", uid, decoding, NoError))

\* a 'card.off' listener that reports the card as still being read
CardOffStillReading(role) ==
  /\ emit(role, ReadingState)
  /\ events' = Append(events, Event(role, "card.off", "", "", NoError))

\* 'card.off' listener of handleReader
CardOff(role) ==
  /\ emit(role, AbsentState)
  /\ events' = Append(events, Event(role, "card.off", "", "", NoError))

\* error.message of an error of the session
errorMessage(error) ==
  CASE error.name = "CardRemovedError" -> "Card was removed during operation"
    [] error.name = "UnsupportedTagError" -> "Unsupported tag type"
    [] OTHER -> "Operation failed"

\* 'error' listener of handleReader
ReaderError(role, error) ==
  /\ emit(role, ErrorState(TokenErrorTypeNFC("READER_ERROR"), errorMessage(error)))
  /\ events' = Append(events, Event(role, "error", "", "", error))

\* a 'connection' listener that replays the initial state
ConnectionReplaysInitial(c) ==
  /\ phase = "serving"
  /\ clients[c].readyState = "NONE"
  /\ clients' = [clients EXCEPT ![c] =
       [readyState |-> "OPEN", sent |-> <<JSONstringify(createInitialState)>>,
        joined |-> Len(published), closeCode |-> 0]]
  /\ UNCHANGED <<readerStates, lastStateMessage, published, phase, events, nfc, exitCode>>

\* 'connection' listener of serveWebSocket
Connection(c) ==
  /\ phase = "serving"
  /\ clients[c].readyState = "NONE"
  /\ clients' = [clients EXCEPT ![c] =
       [readyState |-> "OPEN", sent |-> <<JSONstringify(Deref(lastStateMessage))>>,
        joined |-> Len(published), closeCode |-> 0]]
  /\ UNCHANGED <<readerStates, lastStateMessage, published, phase, events, nfc, exitCode>>

\* a connection that has begun to close; what it was sent is no longer kept
Closing(code) == [readyState |-> "CLOSING", sent |-> <<>>, joined |-> 0, closeCode |-> code]

\* a client starts to close its connection
ClientClose(c) ==
  /\ clients[c].readyState = "OPEN"
  /\ clients' = [clients EXCEPT ![c] = Closing(0)]
  /\ UNCHANGED <<readerStates, lastStateMessage, published, phase, events, nfc, exitCode>>

\* a closing connection has ended: the server drops the client
ClientClosed(c) ==
  /\ clients[c].readyState = "CLOSING"
  /\ clients' = [clients EXCEPT ![c] = NoClient]
  /\ UNCHANGED <<readerStates, lastStateMessage, published, phase, events, nfc, exitCode>>

\* NFC.close of the discovery service; the reader sessions are left as they are
nfcClose(service) ==
  IF service.closed THEN service
  ELSE [closed |-> TRUE, readerListeners |-> {}]

\* the shutdown hook of createStateMessagePublisher: nfc.off and nfc.close
shutdownHook(service) ==
  nfcClose([service EXCEPT !.readerListeners = service.readerListeners \ {"handleReader"}])

\* a shutdown that closes the server and leaves its clients connected
ShutdownWithoutGoingAway ==
  /\ phase = "serving"
  /\ nfc' = shutdownHook(nfc)
  /\ phase' = "closing"
  /\ UNCHANGED <<readerStates, lastStateMessage, clients, published, events, exitCode>>

\* The shutdown signal.  The hook of createStateMessagePublisher was attached
\* to the shutdown promise before serveWebSocket began to wait for it and so
\* runs first; shutdownServer then runs up to its await: wss.close and
\* client.close(1001).
Shutdown ==
  /\ phase = "serving"
  /\ nfc' = shutdownHook(nfc)
  /\ phase' = "closing"
  /\ clients' = [c \in Clients |->
       IF clients[c].readyState = "OPEN" THEN Closing(1001) ELSE clients[c]]
  /\ UNCHANGED <<readerStates, lastStateMessage, published, events, exitCode>>

\* shutdownServer after its await: subscription.unsubscribe and return 0
ShutdownComplete ==
  /\ phase = "closing"
  /\ \A c \in Clients : clients[c].readyState = "NONE"
  /\ phase' = "stopped"
  /\ exitCode' = 0
  /\ UNCHANGED <<readerStates, lastStateMessage, clients, published, events, nfc>>

Uids == {"04a1b2c3"}

\* errors a session reports with its 'error' event
SessionErrors ==
  {CardRemovedError(NativeError("SCARD_E_NO_SMARTCARD")), UnsupportedTagError("MIFARE_CLASSIC_1K")}

NextServe ==
  \/ \E role \in ReaderRoles : CardOn(role) /\ UNCHANGED <<sessionVars, taskVars, readVars, unitVars>>
  \/ \E role \in ReaderRoles, uid \in Uids, decoding \in Decodings :
       CardRead(role, uid, decoding) /\ UNCHANGED <<sessionVars, taskVars, readVars, unitVars>>
  \/ \E role \in ReaderRoles : CardOff(role) /\ UNCHANGED <<sessionVars, taskVars, readVars, unitVars>>
  \/ \E role \in ReaderRoles, error \in SessionErrors :
       ReaderError(role, error) /\ UNCHANGED <<sessionVars, taskVars, readVars, unitVars>>
  \/ \E c \in Clients : Connection(c) /\ UNCHANGED <<sessionVars, taskVars, readVars, unitVars>>
  \/ \E c \in Clients : ClientClose(c) /\ UNCHANGED <<sessionVars, taskVars, readVars, unitVars>>
  \/ \E c \in Clients : ClientClosed(c) /\ UNCHANGED <<sessionVars, taskVars, readVars, unitVars>>
  \/ Shutdown /\ UNCHANGED <<sessionVars, taskVars, readVars, unitVars>>
  \/ ShutdownComplete /\ UNCHANGED <<sessionVars, taskVars, readVars, unitVars>>

(***************************************************************************)
(* Tag identification on its own: Reader.identifyTag for the ATRs of       *)
(* several families, against every result Reader.transmit can return for   *)
(* GET VERSION.  The identification is held in rd and ends where           *)
(* handleCardInserted looks up the range of the family.                    *)
(***************************************************************************)
\* the ATR a reader reports for a card name, and one too short to parse
AtrOfCardName(key) ==
  AtrPrefix \o PCSC_RID \o <<3, key \div 256, key % 256>> \o <<0, 0, 0, 0, 104>>

IdentifyAtrs ==
  { AtrOfCardName(key) : key \in {1, 3, 38, 58, 48, 61444, 61445, 0} } \cup {<<59, 143>>}

\* GET VERSION responses: the product type and storage size bytes, the
\* number of version bytes, and how the response is framed
VersionReplies ==
  [kind : {"version"}, product : {3, 4}, storage : {6, 10, 11, 14, 15, 17, 19},
   length : {6, 7, 8}]
  \cup
  [kind : {"status_6300", "no_prefix", "pn532_error", "short", "empty", "removed",
           "failed", "not_connected", "closed"},
   product : {4}, storage : {15}, length : {8}]

\* what Reader.transmit returns for GET VERSION
versionReply(r) ==
  LET versionData == subarray(<<0, 4, r.product, 2, 1, 0, r.storage, 3>>, 0, r.length)
  IN  CASE r.kind = "version" -> Ok(<<213, 67, 0>> \o versionData \o <<144, 0>>)
        [] r.kind = "status_6300" -> Ok(<<213, 67, 0>> \o versionData \o <<99, 0>>)
        [] r.kind = "no_prefix" -> Ok(<<213, 68, 0>> \o versionData \o <<144, 0>>)
        [] r.kind = "pn532_error" -> Ok(<<213, 67, 1>> \o versionData \o <<144, 0>>)
        [] r.kind = "short" -> Ok(<<213, 67, 144, 0>>)
        [] r.kind = "empty" -> Ok(<<>>)
        [] r.kind = "not_connected" -> Err(NotConnectedError)
        [] OTHER -> transmitReply(r.kind, <<>>)

\* run the identification to its transmit or to its end
RECURSIVE RunIdentify(_)
RunIdentify(st) ==
  IF st.op.pc \in {"transmit", "hci_range"} THEN st ELSE RunIdentify(MicroStep(st))

\* identifyTag(atr), up to its transmit if it makes one
IdentifyStart(atr) ==
  /\ rd.op.pc \in {"free", "hci_range"}
  /\ LET op == [FreeOp EXCEPT !.kind = "identify", !.atr = atr, !.pc = "identify"]
         st == RunIdentify([op |-> op])
     IN  rd' = [op |-> st.op,
                requests |-> IF st.op.pc = "transmit" THEN <<st.op.cmd>> ELSE <<>>,
                replies |-> <<>>]

\* transmit returns to identifyTag, which returns the family
IdentifyReply(r) ==
  /\ rd.op.kind = "identify"
  /\ rd.op.pc = "transmit"
  /\ LET op == [rd.op EXCEPT !.res = versionReply(r), !.pc = rd.op.tret]
         st == RunIdentify([op |-> op])
     IN  rd' = [op |-> st.op,
                requests |-> IF st.op.pc = "transmit" THEN Append(rd.requests, st.op.cmd)
                             ELSE rd.requests,
                replies |-> <<r>>]

NextIdentify ==
  \/ \E atr \in IdentifyAtrs :
       IdentifyStart(atr) /\ UNCHANGED <<sessionVars, taskVars, serveVars, unitVars>>
  \/ \E r \in VersionReplies :
       IdentifyReply(r) /\ UNCHANGED <<sessionVars, taskVars, serveVars, unitVars>>

(***************************************************************************)
(* The commands of ACR122Reader on their own, against every result         *)
(* Reader.transmit can return to them; the session can be closed at any    *)
(* time.  The command, like the read above, is held in rd.                 *)
(***************************************************************************)
AcrCommands ==
  {"getFirmwareVersion", "setBuzzerOnCardDetection"} \cup PiccCommands \cup LedCommands

\* the arguments the commands are called with
PiccParameters == {parsePiccParameter(255), parsePiccParameter(3)}
LedBuzzerOptions ==
  {NoLedBuzzerOptions,
   [NoLedBuzzerOptions EXCEPT !.green = [NoLed EXCEPT !.given = TRUE, !.on = TRUE],
                              !.red = [NoLed EXCEPT !.given = TRUE],
                              !.buzzerOnT1 = TRUE, !.t1Duration = 1, !.repetitions = 1]}

ArgumentsOf(command) ==
  CASE command = "setPiccOperatingParameter" -> PiccParameters
    [] command = "ledBuzzer" -> LedBuzzerOptions
    [] OTHER -> {NoLedBuzzerOptions}

ControlReplies ==
  {"firmware", "two_bytes", "one_byte", "empty", "removed", "failed", "not_connected",
   "closed"}

\* what Reader.transmit returns to a command for a reply of the given kind
controlReply(kind) ==
  CASE kind = "firmware" -> Ok(<<65, 67, 82, 49, 50, 50, 85, 0, 0>>)
    [] kind = "two_bytes" -> Ok(<<144, 3>>)
    [] kind = "one_byte" -> Ok(<<144>>)
    [] kind = "empty" -> Ok(<<>>)
    [] kind = "not_connected" -> Err(NotConnectedError)
    [] OTHER -> transmitReply(kind, <<>>)

\* run the command to its transmit or to its end
RECURSIVE RunCommand(_)
RunCommand(st) ==
  IF st.op.pc \in {"transmit", "done"} THEN st ELSE RunCommand(MicroStep(st))

\* a command of ACR122Reader is called, and runs up to its transmit
CommandCall(command, arg) ==
  /\ rd.op.pc \in {"free", "done"}
  /\ LET op == [FreeOp EXCEPT !.kind = command, !.startedClosed = closed,
                              !.pc = IF command = "setBuzzerOnCardDetection" THEN "vendor"
                                     ELSE "acr"]
         st == RunCommand([op |-> op, arg |-> arg])
     IN  rd' = [op |-> st.op,
                requests |-> IF st.op.pc = "transmit" THEN <<st.op.cmd>> ELSE <<>>,
                replies |-> <<>>]

\* transmit returns to the command, which runs to its end
CommandReply(kind) ==
  /\ rd.op.pc = "transmit"
  /\ rd.op.kind \in AcrCommands
  /\ LET op == [rd.op EXCEPT !.res = controlReply(kind), !.pc = rd.op.tret]
         st == RunCommand([op |-> op, arg |-> NoLedBuzzerOptions])
     IN  rd' = [op |-> st.op, requests |-> rd.requests, replies |-> <<kind>>]

NextAcr ==
  \/ \E command \in AcrCommands : \E arg \in ArgumentsOf(command) :
       CommandCall(command, arg) /\ UNCHANGED <<sessionVars, taskVars, serveVars, unitVars>>
  \/ \E kind \in ControlReplies :
       CommandReply(kind) /\ UNCHANGED <<sessionVars, taskVars, serveVars, unitVars>>
  \/ Close /\ UNCHANGED <<serveVars, readVars, unitVars>>

(***************************************************************************)
(* The functions of constants.ts on their own: parsePiccParameter and      *)
(* buildPiccParameterByte applied one after the other to every byte and to *)
(* every parameter record, and parseAtr applied to ATRs.                   *)
(***************************************************************************)
MaxTail == 4       \* bytes of an ATR after its marker (or after its head)

PiccRecords ==
  [autoPolling : BOOLEAN, autoAtsGeneration : BOOLEAN, shortPollingInterval : BOOLEAN,
   detectFelica424K : BOOLEAN, detectFelica212K : BOOLEAN, detectIso14443B : BOOLEAN,
   detectIso14443A : BOOLEAN, detectMifare : BOOLEAN]

NoPicc == CHOOSE p \in PiccRecords : \A f \in DOMAIN p : ~p[f]

\* a byte read from the reader, or a record the application has made
PiccInputs ==
  { [fn |-> "picc", origin |-> "byte", byte0 |-> b, param0 |-> NoPicc,
     byte |-> b, param |-> NoPicc, applied |-> 0] : b \in 0 .. 255 }
  \cup
  { [fn |-> "picc", origin |-> "param", byte0 |-> 0, param0 |-> p,
     byte |-> 0, param |-> p, applied |-> 0] : p \in PiccRecords }

\* parsePiccParameter is applied to the byte
ApplyParse ==
  /\ calc.fn = "picc"
  /\ calc.applied = (IF calc.origin = "byte" THEN 0 ELSE 1)
  /\ calc' = [calc EXCEPT !.param = parsePiccParameter(calc.byte), !.applied = @ + 1]

\* buildPiccParameterByte is applied to the record
ApplyBuild ==
  /\ calc.fn = "picc"
  /\ calc.applied = (IF calc.origin = "param" THEN 0 ELSE 1)
  /\ calc' = [calc EXCEPT !.byte = buildPiccParameterByte(calc.param), !.applied = @ + 1]

NextPicc ==
  \/ ApplyParse /\ UNCHANGED <<sessionVars, taskVars, serveVars, readVars, discovery, ee, control>>
  \/ ApplyBuild /\ UNCHANGED <<sessionVars, taskVars, serveVars, readVars, discovery, ee, control>>

\* byte sequences of at most n bytes over an alphabet
RECURSIVE SeqsUpTo(_, _)
SeqsUpTo(alphabet, n) ==
  IF n = 0 THEN {<<>>}
  ELSE LET shorter == SeqsUpTo(alphabet, n - 1)
       IN  shorter \cup { Append(q, b) : q \in { x \in shorter : Len(x) = n - 1 },
                                         b \in alphabet }

\* ATRs: a head of the usual ATR, the marker (or a near miss, or nothing),
\* a tail of standard and card-name bytes, and perhaps the marker again
AtrHeads == { subarray(AtrPrefix, 0, n) : n \in 0 .. Len(AtrPrefix) }
AtrMarkers == {PCSC_RID, <<160, 0, 0, 3, 7>>, <<>>}
AtrTails == SeqsUpTo({0, 2, 3, 4, 240}, MaxTail)
AtrInputs ==
  { [fn |-> "parseAtr", atr |-> head \o marker \o tail \o again, called |-> FALSE,
     out |-> [standard |-> "null", type |-> "UNKNOWN"]] :
      head \in AtrHeads, marker \in AtrMarkers, tail \in AtrTails,
      again \in {<<>>, PCSC_RID \o <<2, 0, 3>>} }

\* parseAtr is applied to the ATR
ApplyParseAtr ==
  /\ calc.fn = "parseAtr"
  /\ ~calc.called
  /\ calc' = [calc EXCEPT !.out = parseAtr(calc.atr), !.called = TRUE]

NextAtr ==
  ApplyParseAtr /\ UNCHANGED <<sessionVars, taskVars, serveVars, readVars, discovery, ee, control>>

(***************************************************************************)
(* A TypedEventEmitter on its own.  Every method forwards to the Node.js   *)
(* EventEmitter it wraps, which keeps the registrations of an event in the *)
(* order they were made, removes a once-registration before it invokes its *)
(* listener, removes with off the registration of the listener made last,  *)
(* and throws the argument of an "error" event nobody listens for.         *)
(***************************************************************************)
MaxRegistrations == 3     \* registrations an emitter holds at a time

EmitterEvents == {"data", "error"}
Functions == {"a", "b"}            \* the listeners an application registers
Payloads == {"hello", "test"}      \* what an event is emitted with

NoEmitterCall == [op |-> "none", event |-> "", fn |-> "", invoked |-> <<>>, returned |-> ""]

InitEmitter == ee = [registry |-> <<>>, last |-> NoEmitterCall]

\* the registrations of an event, in order
listenersOf(registry, event) == SelectSeq(registry, LAMBDA r : r.event = event)

\* a sequence without its element at index i
RemoveAt(q, i) == SubSeq(q, 1, i - 1) \o SubSeq(q, i + 1, Len(q))

\* on(event, listener) and once(event, listener)
EmitterOn(event, fn, once) ==
  /\ Len(ee.registry) < MaxRegistrations
  /\ ee' = [registry |-> Append(ee.registry, [event |-> event, fn |-> fn, once |-> once]),
            last |-> [NoEmitterCall EXCEPT !.op = IF once THEN "once" ELSE "on",
                                           !.event = event, !.fn = fn]]

\* off(event, listener)
EmitterOff(event, fn) ==
  LET at == { i \in DOMAIN ee.registry :
                ee.registry[i].event = event /\ ee.registry[i].fn = fn }
  IN  ee' = [registry |-> IF at = {} THEN ee.registry
                          ELSE RemoveAt(ee.registry,
                                        CHOOSE i \in at : \A j \in at : j <= i),
             last |-> [NoEmitterCall EXCEPT !.op = "off", !.event = event, !.fn = fn]]

\* removeAllListeners(event), and removeAllListeners() for "undefined"
EmitterRemoveAllListeners(event) ==
  ee' = [registry |-> IF event # "undefined"
                        THEN SelectSeq(ee.registry, LAMBDA r : r.event # event)
                        ELSE <<>>,
         last |-> [NoEmitterCall EXCEPT !.op = "removeAllListeners", !.event = event]]

\* listenerCount(event)
EmitterListenerCount(event) ==
  ee' = [ee EXCEPT !.last = [NoEmitterCall EXCEPT
                               !.op = "listenerCount", !.event = event,
                               !.returned = ToString(Len(listenersOf(ee.registry, event)))]]

\* emit(event, args): who is invoked, what the call returns, and the
\* registrations left
typedEmit(registry, event, args) ==
  LET to == listenersOf(registry, event)
  IN  [invoked |-> [i \in DOMAIN to |-> [fn |-> to[i].fn, args |-> args]],
       returned |-> IF to # <<>> THEN "true"
                    ELSE IF event = "error" THEN "threw" ELSE "false",
       registry |-> SelectSeq(registry, LAMBDA r : ~(r.event = event /\ r.once))]

EmitterEmit(event, args) ==
  LET done == typedEmit(ee.registry, event, args)
  IN  ee' = [registry |-> done.registry,
             last |-> [NoEmitterCall EXCEPT !.op = "emit", !.event = event, !.fn = args,
                                            !.invoked = done.invoked,
                                            !.returned = done.returned]]

NextEmitter ==
  \/ \E event \in EmitterEvents, fn \in Functions, once \in BOOLEAN :
       EmitterOn(event, fn, once)
         /\ UNCHANGED <<sessionVars, taskVars, serveVars, readVars, discovery, calc, control>>
  \/ \E event \in EmitterEvents, fn \in Functions :
       EmitterOff(event, fn)
         /\ UNCHANGED <<sessionVars, taskVars, serveVars, readVars, discovery, calc, control>>
  \/ \E event \in EmitterEvents \cup {"undefined"} :
       EmitterRemoveAllListeners(event)
         /\ UNCHANGED <<sessionVars, taskVars, serveVars, readVars, discovery, calc, control>>
  \/ \E event \in EmitterEvents :
       EmitterListenerCount(event)
         /\ UNCHANGED <<sessionVars, taskVars, serveVars, readVars, discovery, calc, control>>
  \/ \E event \in EmitterEvents, args \in Payloads :
       EmitterEmit(event, args)
         /\ UNCHANGED <<sessionVars, taskVars, serveVars, readVars, discovery, calc, control>>

(***************************************************************************)
(* The discovery service (NFC.ts) on its own: the NFC instance, the native *)
(* pcsclite layer that signals readers, errors and its end, the sessions   *)
(* the service has wrapped, and the listeners of its three events.         *)
(***************************************************************************)
MaxSignals == 3     \* 'reader' and 'error' signals of the native layer
MaxCloses == 2      \* calls of NFC.close by the application

ReaderNames == {"ACS ACR122U PICC Interface", "Generic Reader"}
NfcEvents == {"reader", "error", "end"}
NoSession == 0

\* ACR122_READER_PATTERN.test(name)
isAcr122(name) == name = "ACS ACR122U PICC Interface"

InitNfc ==
  discovery = [pcsc |-> "handle", closed |-> FALSE,
               _readers |-> [n \in ReaderNames |-> NoSession],
               listeners |-> {},       \* <<event, registered after close>>
               sessions |-> <<>>,      \* every session wrapped so far
               signals |-> 0, nativeEnded |-> FALSE,
               released |-> 0,         \* calls of pcsc.close()
               endEmits |-> 0,         \* calls of emit("end")
               closes |-> <<>>,        \* what each call of close() returned
               delivered |-> {},       \* listener invocations
               thrown |-> FALSE]       \* an emit threw into the native callback

NoCalc == [fn |-> "none"]
InitCalc == calc = NoCalc

\* TypedEventEmitter.emit on the service: every listener of the event is
\* invoked; an "error" nobody listens for is thrown by the EventEmitter
nfcEmit(service, event) ==
  LET to == { l \in service.listeners : l[1] = event }
  IN  [service EXCEPT
         !.delivered = @ \cup { [event |-> event, late |-> l[2], closed |-> service.closed] :
                                 l \in to },
         !.endEmits = IF event = "end" THEN @ + 1 ELSE @,
         !.thrown = @ \/ (event = "error" /\ to = {})]

\* the readers getter
readers(service) ==
  IF service.closed \/ service.pcsc = "null"
    THEN Err(NfcError("Error", {"NFC instance is closed"}))
    ELSE Ok(service._readers)

\* NFC.close without its guard
nfcCloseUnguarded(service) ==
  LET released == [service EXCEPT !.released = @ + 1, !.pcsc = "null", !.closed = TRUE,
                                  !._readers = [n \in ReaderNames |-> NoSession]]
      ended == nfcEmit(released, "end")
  IN  [ended EXCEPT !.listeners = {}, !.closes = Append(@, Ok(<<>>))]

\* NFC.close
closeNfc(service) ==
  IF service.closed \/ service.pcsc = "null"
    THEN [service EXCEPT
            !.closes = Append(@, Err(NfcError("Error", {"NFC instance is already closed"})))]
    ELSE LET released == [service EXCEPT !.released = @ + 1, !.pcsc = "null",
                                         !.closed = TRUE,
                                         !._readers = [n \in ReaderNames |-> NoSession]]
             ended == nfcEmit(released, "end")
         IN  [ended EXCEPT !.listeners = {}, !.closes = Append(@, Ok(<<>>))]

\* nfc.on(event, listener)
NfcOn(event) ==
  /\ ~discovery.thrown
  /\ <<event, discovery.closed>> \notin discovery.listeners
  /\ discovery' = [discovery EXCEPT !.listeners = @ \cup {<<event, discovery.closed>>}]

\* the application calls nfc.close()
NfcClose ==
  /\ ~discovery.thrown
  /\ Len(discovery.closes) < MaxCloses
  /\ discovery' = closeNfc(discovery)

\* the handler of the native 'reader' signal: wrap, track, listen for the
\* session's end, announce
PcscReader(name) ==
  /\ ~discovery.thrown
  /\ discovery.signals < MaxSignals
  /\ LET id == Len(discovery.sessions) + 1
         reader == [name |-> name, ended |-> FALSE,
                    class |-> IF isAcr122(name) THEN "ACR122Reader" ELSE "Reader"]
         tracked == [discovery EXCEPT !.signals = @ + 1,
                                      !.sessions = Append(@, reader),
                                      !._readers[name] = id]
     IN  discovery' = nfcEmit(tracked, "reader")

\* the handler of the native 'error' signal
PcscError ==
  /\ ~discovery.thrown
  /\ discovery.signals < MaxSignals
  /\ discovery' = nfcEmit([discovery EXCEPT !.signals = @ + 1], "error")

\* the handler of the native 'end' signal
PcscEnd ==
  /\ ~discovery.thrown
  /\ ~discovery.nativeEnded
  /\ LET ended == [discovery EXCEPT !.nativeEnded = TRUE]
     IN  discovery' = IF ~ended.closed THEN closeNfc(ended) ELSE ended

\* a session emits 'end': the listener the service put on it deletes the
\* entry of the session's name
SessionEnd(id) ==
  /\ ~discovery.thrown
  /\ id \in DOMAIN discovery.sessions
  /\ ~discovery.sessions[id].ended
  /\ discovery' = [discovery EXCEPT !.sessions[id].ended = TRUE,
                                    !._readers[discovery.sessions[id].name] = NoSession]

NextNfc ==
  \/ \E event \in NfcEvents :
       NfcOn(event) /\ UNCHANGED <<sessionVars, taskVars, serveVars, readVars, calc, ee, control>>
  \/ NfcClose /\ UNCHANGED <<sessionVars, taskVars, serveVars, readVars, calc, ee, control>>
  \/ \E name \in ReaderNames :
       PcscReader(name) /\ UNCHANGED <<sessionVars, taskVars, serveVars, readVars, calc, ee, control>>
  \/ PcscError /\ UNCHANGED <<sessionVars, taskVars, serveVars, readVars, calc, ee, control>>
  \/ PcscEnd /\ UNCHANGED <<sessionVars, taskVars, serveVars, readVars, calc, ee, control>>
  \/ \E id \in 1..MaxSignals :
       SessionEnd(id) /\ UNCHANGED <<sessionVars, taskVars, serveVars, readVars, calc, ee, control>>

(***************************************************************************)
(* Reader control (serve.ts): what the 'card' listener of handleReader     *)
(* does after it has published the token, for a reader of either class     *)
(* bound to each role.  A listener waits for the command it has sent while *)
(* further card events are handled.                                        *)
(***************************************************************************)
ReaderClasses == {"ACR122Reader", "Reader"}

\* the variables of one handleReader call, the commands its listeners wait
\* for, and every command they have sent
ControlOf(class) ==
  [class |-> class,
   buzzerDisablingCompleted |-> FALSE,
   piccOperatingParameterSettingCompleted |-> FALSE,
   pending |-> <<>>,
   commands |-> <<>>]

NoControlStep == [op |-> "none", role |-> "", ok |-> FALSE]

InitControl ==
  control = [readers |-> [role \in ReaderRoles |-> ControlOf("Reader")],
             last |-> NoControlStep]

\* the listener calls a command of the reader and waits for its result
sendCommand(c, command) ==
  [c EXCEPT !.pending = Append(@, command),
            !.commands = Append(@, [command |-> command,
                                    completed |-> c.buzzerDisablingCompleted])]

\* the block piccControl
piccControl(c) ==
  IF c.piccOperatingParameterSettingCompleted THEN c
  ELSE IF c.class # "ACR122Reader"
    THEN [c EXCEPT !.piccOperatingParameterSettingCompleted = TRUE]
  ELSE sendCommand(c, "setPiccOperatingParameter")

\* a block buzzerControl that does not look at its flag
buzzerControlUnflagged(c) ==
  IF c.class # "ACR122Reader"
    THEN piccControl([c EXCEPT !.buzzerDisablingCompleted = TRUE])
  ELSE sendCommand(c, "setBuzzerOnCardDetection")

\* the block buzzerControl, and piccControl when it does not wait
buzzerControl(c) ==
  IF c.buzzerDisablingCompleted THEN piccControl(c)
  ELSE IF c.class # "ACR122Reader"
    THEN piccControl([c EXCEPT !.buzzerDisablingCompleted = TRUE])
  ELSE sendCommand(c, "setBuzzerOnCardDetection")

\* the whole 'card' listener, up to the command it waits for
ControlCard(role, uid, decoding) ==
  /\ CardRead(role, uid, decoding)
  /\ control' = [readers |-> [control.readers EXCEPT
                                ![role] = IF decodeData(decoding).ok THEN buzzerControl(@)
                                          ELSE @],
                 last |-> [op |-> "card", role |-> role, ok |-> decodeData(decoding).ok]]

\* setBuzzerOnCardDetection(false) returns to the listener that waits for it
BuzzerReturn(role, i, ok) ==
  LET c == control.readers[role]
      resumed == [c EXCEPT !.pending = RemoveAt(@, i)]
  IN  /\ i \in DOMAIN c.pending
      /\ c.pending[i] = "setBuzzerOnCardDetection"
      /\ control' = [readers |-> [control.readers EXCEPT
                                    ![role] = IF ~ok THEN piccControl(resumed)
                                              ELSE piccControl(
                                                     [resumed EXCEPT
                                                        !.buzzerDisablingCompleted = TRUE])],
                     last |-> [op |-> "buzzer", role |-> role, ok |-> ok]]
      /\ UNCHANGED serveVars

\* setPiccOperatingParameter returns to the listener that waits for it
PiccReturn(role, i, ok) ==
  LET c == control.readers[role]
  IN  /\ i \in DOMAIN c.pending
      /\ c.pending[i] = "setPiccOperatingParameter"
      /\ control' = [readers |-> [control.readers EXCEPT ![role].pending = RemoveAt(@, i)],
                     last |-> [op |-> "picc", role |-> role, ok |-> ok]]
      /\ UNCHANGED serveVars

\* the 'card.off' listener
ControlCardOff(role) ==
  /\ CardOff(role)
  /\ control' = [control EXCEPT !.last = [op |-> "card.off", role |-> role, ok |-> TRUE]]

NextControl ==
  \/ \E role \in ReaderRoles, uid \in Uids, decoding \in Decodings :
       ControlCard(role, uid, decoding)
         /\ UNCHANGED <<sessionVars, taskVars, readVars, discovery, calc, ee>>
  \/ \E role \in ReaderRoles, i \in 1 .. 2 * MaxPublishes, ok \in BOOLEAN :
       BuzzerReturn(role, i, ok)
         /\ UNCHANGED <<sessionVars, taskVars, readVars, discovery, calc, ee>>
  \/ \E role \in ReaderRoles, i \in 1 .. 2 * MaxPublishes, ok \in BOOLEAN :
       PiccReturn(role, i, ok)
         /\ UNCHANGED <<sessionVars, taskVars, readVars, discovery, calc, ee>>
  \/ \E role \in ReaderRoles :
       ControlCardOff(role)
         /\ UNCHANGED <<sessionVars, taskVars, readVars, discovery, calc, ee>>

Next ==
  \/ \E new \in StatusStates, tag \in Tags \cup {"none"} :
       Status(new, tag) /\ UNCHANGED <<serveVars, readVars, unitVars>>
  \/ \E p \in Procs, outcome \in ConnectOutcomes :
       ConnectCallback(p, outcome) /\ UNCHANGED <<serveVars, readVars, unitVars>>
  \/ \E p \in Procs, outcome \in DisconnectOutcomes :
       DisconnectCallback(p, outcome) /\ UNCHANGED <<serveVars, readVars, unitVars>>
  \/ \E p \in Procs, outcome \in TransmitOutcomes :
       TransmitCallback(p, outcome) /\ UNCHANGED <<serveVars, readVars, unitVars>>
  \/ \E code \in {"SCARD_E_OTHER"} : NativeErrorEvent(code) /\ UNCHANGED <<serveVars, readVars, unitVars>>
  \/ Close /\ UNCHANGED <<serveVars, readVars, unitVars>>
  \/ NativeEnd /\ UNCHANGED <<serveVars, readVars, unitVars>>
  \/ VendorCall /\ UNCHANGED <<serveVars, readVars, unitVars>>

(***************************************************************************)
(* A reader session bound to a role: every emission of the session is      *)
(* handled, in the task that makes it, by the listeners handleReader has   *)
(* put on the session.  The reader is of the plain class, so the 'card'    *)
(* listener sends it no command of its own, and no client is connected.    *)
(***************************************************************************)
BoundRole == "inventory"

\* the state a listener of handleReader publishes for an emission
listenerState(entry, decoding) ==
  CASE entry.ev = "card.on" -> ReadingState
    [] entry.ev = "card" ->
         IF ~decodeData(decoding).ok
           THEN ErrorState(TokenErrorTypeNFC("DATA_INVALID"), decodeData(decoding).error)
           ELSE PresentState([id |-> entry.card.uid, class |-> decodeData(decoding).value])
    [] entry.ev = "card.off" -> AbsentState
    [] OTHER -> ErrorState(TokenErrorTypeNFC("READER_ERROR"), errorMessage(entry.error))

\* the listeners handle the emissions of a task, in order
RECURSIVE handleEmissions(_, _, _)
handleEmissions(serve, entries, decoding) ==
  IF entries = <<>> THEN serve
  ELSE LET entry == Head(entries)
           states == [serve.readerStates EXCEPT
                        ![BoundRole] = listenerState(entry, decoding)]
           message == snapshot(states, BoundRole)
       IN  IF ~entry.delivered \/ entry.ev = "end"
             THEN handleEmissions(serve, Tail(entries), decoding)
           ELSE handleEmissions(
                  [readerStates |-> states,
                   lastStateMessage |-> message,
                   published |-> Append(serve.published, message),
                   events |-> Append(serve.events,
                                     Event(BoundRole, entry.ev, entry.card.uid,
                                           IF entry.ev = "card" THEN decoding ELSE "",
                                           entry.error))],
                  Tail(entries), decoding)

\* the listeners of handleReader, for the emissions of this task
Listen ==
  \E decoding \in Decodings :
    LET serve == handleEmissions([readerStates |-> readerStates,
                                  lastStateMessage |-> lastStateMessage,
                                  published |-> published, events |-> events],
                                 emitted', decoding)
    IN  /\ Len(serve.published) <= MaxPublishes
        /\ readerStates' = serve.readerStates
        /\ lastStateMessage' = serve.lastStateMessage
        /\ published' = serve.published
        /\ events' = serve.events
        /\ UNCHANGED <<clients, phase, nfc, exitCode>>

NextBound ==
  \/ \E new \in StatusStates, tag \in Tags \cup {"none"} :
       Status(new, tag) /\ Listen /\ UNCHANGED <<readVars, unitVars>>
  \/ \E p \in Procs, outcome \in ConnectOutcomes :
       ConnectCallback(p, outcome) /\ Listen /\ UNCHANGED <<readVars, unitVars>>
  \/ \E p \in Procs, outcome \in DisconnectOutcomes :
       DisconnectCallback(p, outcome) /\ Listen /\ UNCHANGED <<readVars, unitVars>>
  \/ \E p \in Procs, outcome \in TransmitOutcomes :
       TransmitCallback(p, outcome) /\ Listen /\ UNCHANGED <<readVars, unitVars>>
  \/ \E code \in {"SCARD_E_OTHER"} :
       NativeErrorEvent(code) /\ Listen /\ UNCHANGED <<readVars, unitVars>>
  \/ Close /\ Listen /\ UNCHANGED <<readVars, unitVars>>
  \/ NativeEnd /\ Listen /\ UNCHANGED <<readVars, unitVars>>

\* the units checked on their own, at rest
InitUnits == InitNfc /\ InitCalc /\ InitEmitter /\ InitControl

\* the reader session, with the broadcast service at rest
Init == InitReader /\ InitServe /\ InitRead /\ InitUnits

Spec == Init /\ [][Next]_vars

\* the broadcast service, with a reader session bound to a role at rest
InitBroadcast == InitServe /\ InitReader /\ InitRead /\ InitUnits /\ listeners = ReaderEvents

SpecServe == InitBroadcast /\ [][NextServe]_vars

\* a closing connection ends, or the close of the server completes
Drain ==
  \/ \E c \in Clients : ClientClosed(c) /\ UNCHANGED <<sessionVars, taskVars, readVars, unitVars>>
  \/ ShutdownComplete /\ UNCHANGED <<sessionVars, taskVars, readVars, unitVars>>

\* the broadcast service when closing connections do end: the server ends a
\* connection whose peer does not, and then completes its own close
SpecServeFair == SpecServe /\ WF_vars(Drain)

\* a data-page read, with the session and the broadcast service at rest
SpecRead == InitBroadcast /\ [][NextRead]_vars

\* tag identification, with everything else at rest
SpecIdentify == InitBroadcast /\ [][NextIdentify]_vars

\* the commands of ACR122Reader, with everything else at rest
SpecAcr == InitBroadcast /\ [][NextAcr]_vars

\* the PICC parameter functions and parseAtr, with everything else at rest
InitButCalc ==
  /\ InitServe /\ InitReader /\ InitRead /\ listeners = ReaderEvents
  /\ InitNfc /\ InitEmitter /\ InitControl
InitPicc == calc \in PiccInputs /\ InitButCalc
InitAtr == calc \in AtrInputs /\ InitButCalc
SpecPicc == InitPicc /\ [][NextPicc]_vars
SpecAtr == InitAtr /\ [][NextAtr]_vars

\* a TypedEventEmitter, with everything else at rest
SpecEmitter == InitBroadcast /\ [][NextEmitter]_vars

\* reader control, for readers of either class bound to the roles
InitControlled ==
  /\ InitServe /\ InitReader /\ InitRead /\ listeners = ReaderEvents
  /\ InitNfc /\ InitCalc /\ InitEmitter
  /\ control \in [readers : [ReaderRoles -> { ControlOf(class) : class \in ReaderClasses }],
                  last : {NoControlStep}]

SpecControl == InitControlled /\ [][NextControl]_vars

\* a native connect, disconnect or transmit of an operation calls back
NativeCallback(p) ==
  /\ \/ \E outcome \in ConnectOutcomes : ConnectCallback(p, outcome)
     \/ \E outcome \in DisconnectOutcomes : DisconnectCallback(p, outcome)
     \/ \E outcome \in TransmitOutcomes : TransmitCallback(p, outcome)
  /\ UNCHANGED <<serveVars, readVars, unitVars>>

\* the callback of p can be delivered: ENABLED <<NativeCallback(p)>>_vars,
\* from the guards of the three callbacks
CallbackEnabled(p) == running /\ ops[p].pc \in Waiting

\* WF_vars(NativeCallback(p)), with the enabling condition written out
CallbackFairness(p) ==
  []<>(~CallbackEnabled(p)) \/ []<><<NativeCallback(p)>>_vars

\* the reader session when every native call in flight calls back in the end
SpecCallbacks == Spec /\ \A p \in Procs : CallbackFairness(p)

\* the 'card' listener of handleReader on an ACR122Reader: called from the
\* emit that ends a detect sequence, it calls setBuzzerOnCardDetection(false)
CardListenerCommand ==
  LET op == [FreeOp EXCEPT !.kind = "vendor", !.pc = "vendor", !.startedClosed = closed]
  IN  /\ running
      /\ completed.kind = "detect"
      /\ \E i \in DOMAIN emitted : /\ emitted[i].ev = "card"
                                   /\ emitted[i].src = completed.pid
                                   /\ emitted[i].delivered
      /\ Resume(Ctx(completed.pid, op))
      /\ closeResult' = NoResult
      /\ UNCHANGED <<closed, listeners, readerState, field, nativeCloses, nativeEnded,
                     endEmits>>

\* the operations of a kind that wait for a native callback
InFlight(kind) == { p \in Procs : ops[p].kind = kind /\ ops[p].pc \in Waiting }

\* an ACR122Reader session whose vendor commands come from the 'card'
\* listener, and whose tags are changed no faster than they are read: a tag
\* is placed only when no detect sequence is in flight
NextCommanded ==
  \/ \E new \in StatusStates, tag \in Tags \cup {"none"} :
       /\ "PRESENT" \in new => InFlight("detect") = {}
       /\ Status(new, tag) /\ UNCHANGED <<serveVars, readVars, unitVars>>
  \/ \E p \in Procs : NativeCallback(p)
  \/ Close /\ UNCHANGED <<serveVars, readVars, unitVars>>
  \/ CardListenerCommand /\ UNCHANGED <<serveVars, readVars, unitVars>>

SpecCommanded == InitBroadcast /\ [][NextCommanded]_vars

\* a reader session bound to a role
SpecBound == InitBroadcast /\ [][NextBound]_vars

\* the discovery service, with everything else at rest
SpecNfc == InitBroadcast /\ [][NextNfc]_vars

(***************************************************************************)
(* Properties of Reader.transmit, stated on the record of the call that    *)
(* returned in the last task: its native calls with their outcomes, and    *)
(* the result it returned.                                                 *)
(***************************************************************************)
NativeAttempts(t) == { i \in DOMAIN t : t[i].op = "transmit" }
Succeeded(call) == call.outcome = "connected"

\* the result a caller is owed for a native transmit that called back with outcome
Owed(call, r) ==
  CASE call.outcome = "answer" -> r = Ok(Respond(call.cmd, field))
    [] call.outcome = "status_6300" -> r.ok /\ getStatusWord(r.value) # SW_SUCCESS
    [] call.outcome = "SCARD_E_NO_SMARTCARD" -> ~r.ok /\ r.error.name = "CardRemovedError"
    [] OTHER -> ~r.ok /\ r.error.name = "TransmitError"

\* C1: a transmit on an open session whose first native attempt fails with
\* SCARD_W_RESET_CARD disconnects once, connects once and, when that connect
\* succeeds, sends the same command once more and returns the result of this
\* second attempt; no transmit makes more than two native attempts.
C1_ResetRetriedOnce ==
  LET t == returned.trace
  IN  returned # NoCall =>
        /\ Cardinality(NativeAttempts(t)) <= 2
        /\ (~closed /\ t[1].op = "transmit" /\ t[1].outcome = "SCARD_W_RESET_CARD") =>
             /\ Len(t) >= 3
             /\ t[2].op = "disconnect"
             /\ t[3].op = "connect"
             /\ IF Succeeded(t[3])
                  THEN /\ Len(t) = 4
                       /\ t[4].op = "transmit"
                       /\ t[4].cmd = t[1].cmd
                       /\ Owed(t[4], returned.res)
                  ELSE /\ Len(t) = 3
                       /\ returned.res = returned.first

\* a transmit has returned the answer of its second attempt after a reset
C1_Witness ==
  /\ returned # NoCall
  /\ ~closed
  /\ Len(returned.trace) = 4
  /\ returned.trace[1].outcome = "SCARD_W_RESET_CARD"
  /\ returned.trace[4].outcome = "answer"
  /\ returned.res.ok

\* C2: a transmit whose first native attempt fails with anything but the card
\* reset makes no further native call and returns Err(CardRemovedError) for
\* SCARD_E_NO_SMARTCARD and Err(TransmitError) otherwise.
C2_OtherFailuresNotRetried ==
  LET t == returned.trace
  IN  (returned # NoCall /\ t[1].op = "transmit"
         /\ t[1].outcome \in NativeCodes \ {"SCARD_W_RESET_CARD"}) =>
        /\ Len(t) = 1
        /\ Owed(t[1], returned.res)
        /\ returned.res.error.cause = NativeError(t[1].outcome).msg

\* a transmit has returned Err(CardRemovedError) after one attempt
C2_Witness ==
  /\ returned # NoCall
  /\ Len(returned.trace) = 1
  /\ returned.trace[1].outcome = "SCARD_E_NO_SMARTCARD"
  /\ returned.res.error.name = "CardRemovedError"

(***************************************************************************)
(* Properties of the session's event handling.                             *)
(***************************************************************************)
DetectsInProgress == { p \in Procs : ops[p].kind = "detect" /\ ops[p].pc \in Waiting }
Emitted(ev) == { i \in DOMAIN emitted : emitted[i].ev = ev }
PageCommands == {"GET_DATA_UID", "READ_BINARY", "FAST_READ"}

\* C3: no two detect sequences of one session are in progress at the same time.
C3_NoOverlappingDetect == Cardinality(DetectsInProgress) <= 1

\* C4: no failure escapes the session as an uncaught exception or as an
\* unhandled promise rejection.
C4_NoEscapedError == crashed = "none"

\* C5: a detect sequence that identifies a family without an entry in
\* TAG_DATA_RANGE emits exactly one error event, an UnsupportedTagError with
\* that family; no card event is emitted, no card is recorded, and the
\* sequence has sent no UID query and no page read.
C5_UnsupportedTagRejected ==
  \A i \in DOMAIN emitted :
    emitted[i].error.name = "UnsupportedTagError" =>
      /\ TAG_DATA_RANGE(emitted[i].error.tagType) = NoRange
      /\ Emitted("error") = {i}
      /\ Emitted("card") = {}
      /\ card = NoCard
      /\ completed.issued \cap PageCommands = {}

\* the step of the 'status' listener for a card-absent signal
CardAbsentSignal == readerState' = {"EMPTY"} /\ readerState # {"EMPTY"}

\* C6: a card-absent signal that finds card c recorded emits card.off with c,
\* after which the card getter returns Ok(null); one that finds no card
\* recorded emits no card.off.
C6_CardOffCarriesRecordedCard ==
  [][CardAbsentSignal =>
       IF card # NoCard
         THEN /\ emitted' = <<[ev |-> "card.off", card |-> card, error |-> NoError,
                               src |-> 0, delivered |-> "card.off" \in listeners]>>
              /\ cardGetter' = [ok |-> TRUE, value |-> NoCard, error |-> NoError]
         ELSE Emitted("card.off")' = {}]_vars

\* a card.off has been emitted for a recorded card
C6_Witness ==
  /\ readerState = {"EMPTY"}
  /\ Emitted("card.off") # {}
  /\ emitted[1].card.uid # ""
  /\ card = NoCard

\* C7, as stated: every operation of a closed session, one that was in flight
\* when close() was called included, returns Err(ReaderClosedError).
C7_InFlightReturnsClosed ==
  closed =>
    /\ returned # NoCall => returned.res = Err(ReaderClosedError)
    /\ completed.kind = "vendor" => completed.out = Err(ReaderClosedError)

\* C7: close() returns Ok on a session that is not closed and
\* Err(ReaderClosedError) on a closed one; the closed flag is never cleared; on
\* a closed session the card getter returns Err(ReaderClosedError), an
\* operation invoked returns Err(ReaderClosedError) without a native command,
\* and an operation that was in flight issues no further native command.
C7_ClosedIsFinal ==
  /\ [](closed => cardGetter.error = ReaderClosedError /\ ~cardGetter.ok)
  /\ [](completed.startedClosed =>
          completed.out = Err(ReaderClosedError) /\ completed.issued = {})
  /\ [][/\ closed => closed'
        /\ closeResult' # NoResult =>
             closeResult' = IF closed THEN Err(ReaderClosedError) ELSE Ok(<<>>)
        /\ closed => nativeCloses' = nativeCloses
        /\ closed => \A p \in Procs :
             ops'[p].pc \in Waiting => ops'[p].trace = ops[p].trace]_vars

\* an operation invoked on a closed session has returned, and close() has
\* been refused
C7_Witness ==
  /\ closed
  /\ completed.kind = "vendor"
  /\ completed.startedClosed
  /\ \E p \in Procs : ops[p].kind = "detect" /\ ops[p].pc \in Waiting

\* C8: the session emits end once and closes the native reader once, when it
\* is closed by close(), by the native reader's end or by both; after that no
\* event reaches a listener.
C8_EndOnce ==
  /\ endEmits = (IF closed THEN 1 ELSE 0)
  /\ nativeCloses = (IF closed THEN 1 ELSE 0)
  /\ \A i \in DOMAIN emitted :
       (closed /\ emitted[i].delivered) => (emitted[i].ev = "end" /\ Len(emitted) = 1)
  /\ closed => listeners = {}

\* close() and the native end have both happened
C8_Witness ==
  /\ closed
  /\ nativeEnded
  /\ endEmits = 1
  /\ nativeCloses = 1
  /\ \E p \in Procs : ops[p].pc = "done"

(***************************************************************************)
(* Properties of the broadcast service, stated on what each client has     *)
(* been sent.                                                              *)
(***************************************************************************)
\* the snapshot that was the latest after n publications
LatestAfter(n) == IF n = 0 THEN createInitialState ELSE Deref(published[n])

\* what a client that connected after n publications is owed by now
Replay(n) ==
  <<JSONstringify(LatestAfter(n))>>
    \o [i \in 1 .. (Len(published) - n) |-> JSONstringify(Deref(published[n + i]))]

\* C9: an open client that connected after n publications has been sent the
\* snapshot that was the latest at that time, then every snapshot published
\* since, each once and in the order of publication, and nothing else.
C9_LatestThenEveryLater ==
  \A c \in Clients :
    clients[c].readyState = "OPEN" => clients[c].sent = Replay(clients[c].joined)

\* a client that connected after a state change has been sent a later one
C9_Witness ==
  \E c \in Clients :
    /\ clients[c].readyState = "OPEN"
    /\ clients[c].joined = 1
    /\ Len(clients[c].sent) = 2
    /\ clients[c].sent[1] # clients[c].sent[2]
    /\ clients[c].sent[1] # JSONstringify(createInitialState)

\* the JSON text of an absent, reading, present or error token state
IsTokenStateText(t) ==
  \/ t = <<"{", "state", "absent", "}">>
  \/ t = <<"{", "state", "reading", "}">>
  \/ /\ Len(t) = 11
     /\ SubSeq(t, 1, 6) = <<"{", "state", "present", "token", "{", "id">>
     /\ t[8] = "class"
     /\ SubSeq(t, 10, 11) = <<"}", "}">>
  \/ /\ Len(t) \in {9, 11}
     /\ SubSeq(t, 1, 5) = <<"{", "state", "error", "error", "{">>
     /\ t[Len(t) - 3] = "details"
     /\ Len(t) = 11 => t[6] = "type"
     /\ SubSeq(t, Len(t) - 1, Len(t)) = <<"}", "}">>

\* the JSON text of a snapshot with an entry for either role
IsSnapshotText(m) ==
  \E k \in 4 .. (Len(m) - 2) :
    /\ m[1] = "{"
    /\ m[2] = "challenge"
    /\ IsTokenStateText(SubSeq(m, 3, k - 1))
    /\ m[k] = "inventory"
    /\ IsTokenStateText(SubSeq(m, k + 1, Len(m) - 1))
    /\ m[Len(m)] = "}"

AllAbsentText ==
  <<"{", "challenge", "{", "state", "absent", "}",
    "inventory", "{", "state", "absent", "}", "}">>

\* C10: every message sent to a client is a whole snapshot, with an entry for
\* the challenge role and one for the inventory role, each an absent, reading,
\* present (with a token) or error (with an error object) state; the snapshot
\* sent before any state change has both roles absent.
C10_WholeSnapshots ==
  \A c \in Clients :
    /\ \A i \in DOMAIN clients[c].sent : IsSnapshotText(clients[c].sent[i])
    /\ (clients[c].readyState = "OPEN" /\ clients[c].joined = 0) =>
         clients[c].sent[1] = AllAbsentText

\* a client has been sent the initial snapshot and one with an error state
\* for one role and a token for the other
C10_Witness ==
  \E c \in Clients :
    /\ Len(clients[c].sent) = 3
    /\ clients[c].sent[1] = AllAbsentText
    /\ \E i, j \in DOMAIN clients[c].sent[3] :
         clients[c].sent[3][i] = "error" /\ clients[c].sent[3][j] = "present"

\* the snapshot a holder of the object reads after the step
DerefNext(object) == IF object.live THEN readerStates' ELSE object.value

OtherRole(role) == IF role = "challenge" THEN "inventory" ELSE "challenge"

\* C11: the snapshot published for an event of one role's reader has the other
\* role's entry as it was in the snapshot published before; a snapshot that
\* has been published, or is stored as the latest one, reads the same after
\* every later step.
C11_OnlyOwnEntryReplaced ==
  /\ [](\A i \in DOMAIN published :
          Deref(published[i])[OtherRole(events[i].role)]
            = LatestAfter(i - 1)[OtherRole(events[i].role)])
  /\ [][/\ \A i \in DOMAIN published : DerefNext(published[i]) = Deref(published[i])
        /\ lastStateMessage' = lastStateMessage =>
             DerefNext(lastStateMessage) = Deref(lastStateMessage)]_vars

\* an event of each role has been published: the second snapshot keeps the
\* entry of the first role, and the first snapshot still lacks the second
C11_Witness ==
  /\ Len(published) = 2
  /\ events[1].role # events[2].role
  /\ Deref(published[2])[events[1].role] = Deref(published[1])[events[1].role]
  /\ Deref(published[1])[events[2].role] = AbsentState
  /\ readerStates[events[1].role] # AbsentState
  /\ readerStates[events[2].role] # AbsentState

\* the state a listener of handleReader owes for a reader event
Publishes(e, s) ==
  CASE e.ev = "card.on" -> s = ReadingState
    [] e.ev = "card.off" -> s = AbsentState
    [] e.ev = "error" -> s.state = "error"
    [] OTHER -> IF e.decoding = "text_record"
                  THEN s = PresentState([id |-> e.uid, class |-> TokenClass])
                  ELSE s.state = "error"

\* C12: every card.on, card, card.off and error event of a bound reader
\* publishes one snapshot, in the order of the events: Reading for card.on,
\* Present with the card's uid and the decoded text for a card that decodes,
\* Error for a card that does not, Absent for card.off, Error for error.
C12_OneSnapshotPerEvent ==
  /\ Len(published) = Len(events)
  /\ \A i \in DOMAIN events : Publishes(events[i], Deref(published[i])[events[i].role])

\* a card has been read and then removed
C12_Witness ==
  /\ Len(events) = 2
  /\ events[1].ev = "card"
  /\ events[1].decoding = "text_record"
  /\ events[2].ev = "card.off"
  /\ events[2].role = events[1].role
  /\ Deref(published[1])[events[1].role].token.id \in Uids

\* C13: an error event that carries a CardRemovedError publishes Error with
\* the kind READ_INTERRUPTED.
C13_RemovalIsReadInterrupted ==
  \A i \in DOMAIN events :
    (events[i].ev = "error" /\ events[i].error.name = "CardRemovedError") =>
      Deref(published[i])[events[i].role].error.type = TokenErrorTypeNFC("READ_INTERRUPTED")

\* C14: the error object of every Error state sent to a client has a type,
\* one of the kinds of TokenErrorTypeNFC.
C14_ErrorHasType ==
  \A c \in Clients : \A i \in DOMAIN clients[c].sent :
    LET m == clients[c].sent[i]
    IN  \A k \in 1 .. (Len(m) - 3) :
          (m[k] = "error" /\ m[k + 1] = "{") =>
            /\ m[k + 2] = "type"
            /\ m[k + 3] \in {"UNKNOWN_ERROR", "READ_INTERRUPTED", "DATA_INVALID"}

\* C15: the discovery service is closed only after the broadcast transport
\* has been drained and closed.
C15_TransportClosedFirst == nfc.closed => phase = "stopped"

\* C16: before the shutdown signal the server closes no client connection;
\* the shutdown signal sends a close with code 1001 to every open client;
\* after it no client is connected anew; serve then returns 0.
C16_GoingAwayThenZero ==
  /\ [](phase = "serving" => \A c \in Clients : clients[c].closeCode = 0)
  /\ [](exitCode \in {-1, 0} /\ (exitCode = 0 <=> phase = "stopped"))
  /\ [][/\ (phase = "serving" /\ phase' # "serving") =>
             \A c \in Clients :
               clients[c].readyState = "OPEN" =>
                 clients'[c].readyState = "CLOSING" /\ clients'[c].closeCode = 1001
        /\ phase # "serving" =>
             \A c \in Clients : clients'[c].readyState = "OPEN" => clients[c].readyState = "OPEN"
       ]_vars
  /\ (phase = "closing") ~> (exitCode = 0)

\* the shutdown signal has found a client connected that had been sent a
\* snapshot with an error state
C16_Witness ==
  /\ phase = "closing"
  /\ \E c \in Clients : clients[c].closeCode = 1001
  /\ \E i \in DOMAIN events : events[i].ev = "error"
  /\ exitCode = -1

\* C17: once the shutdown signal has been handled no reader event changes the
\* live snapshot or the stored one, and none is sent to a client.
C17_NoChangeAfterShutdown ==
  [][phase # "serving" =>
       /\ readerStates' = readerStates
       /\ lastStateMessage' = lastStateMessage
       /\ \A c \in Clients : clients'[c].sent = clients[c].sent]_vars

(***************************************************************************)
(* Properties of the data-page read.                                       *)
(***************************************************************************)
ReadDone == rd.op.pc = "pages_read"
ReadRange == TAG_DATA_RANGE(rd.op.tagType)
IsFastRead == rd.op.tagType \in FAST_READ_TAG_TYPES

\* C18: a data-page read that returns success returns pageCount * PAGE_SIZE bytes.
C18_ExactLength ==
  (ReadDone /\ rd.op.out.ok) => Len(rd.op.out.value) = ReadRange.pageCount * PAGE_SIZE

FirstPage(cmd) == IF CmdKind(cmd) = "FAST_READ" THEN cmd[9] ELSE cmd[4]
LastPage(cmd) == IF CmdKind(cmd) = "FAST_READ" THEN cmd[10] ELSE cmd[4]
Ceil(a, b) == (a + b - 1) \div b

\* C19: the requests of a read start at startPage, each begins where the one
\* before ended, a FAST_READ covers 1 to FAST_READ_MAX_PAGES pages and a READ
\* BINARY one page; a read that succeeds has issued ceil(pageCount /
\* FAST_READ_MAX_PAGES) FAST_READ requests, or pageCount READ BINARY requests,
\* that end at page startPage + pageCount - 1.
C19_ChunksCoverRange ==
  LET reqs == rd.requests
      n == Len(reqs)
  IN  /\ \A i \in DOMAIN reqs :
           /\ CmdKind(reqs[i]) = (IF IsFastRead THEN "FAST_READ" ELSE "READ_BINARY")
           /\ FirstPage(reqs[i]) =
                (IF i = 1 THEN ReadRange.startPage ELSE LastPage(reqs[i - 1]) + 1)
           /\ FirstPage(reqs[i]) <= LastPage(reqs[i])
           /\ LastPage(reqs[i]) - FirstPage(reqs[i]) + 1
                <= (IF IsFastRead THEN FAST_READ_MAX_PAGES ELSE 1)
           /\ LastPage(reqs[i]) <= ReadRange.startPage + ReadRange.pageCount - 1
           /\ ~IsFastRead => reqs[i][5] = PAGE_SIZE
      /\ (ReadDone /\ rd.op.out.ok) =>
           /\ n = (IF IsFastRead THEN Ceil(ReadRange.pageCount, FAST_READ_MAX_PAGES)
                   ELSE ReadRange.pageCount)
           /\ LastPage(reqs[n]) = ReadRange.startPage + ReadRange.pageCount - 1

\* a bulk read of the largest family has succeeded with four requests
C19_Witness ==
  /\ ReadDone
  /\ rd.op.out.ok
  /\ rd.op.tagType = "NTAG_216"
  /\ Len(rd.requests) = 4
  /\ LastPage(rd.requests[1]) = 62
  /\ FirstPage(rd.requests[4]) = 183

\* C20: no request follows a reply that is a failure; the read whose last
\* reply is a failure has ended with Err(ReadError) and no data, or with the
\* result of transmit itself when that is Err(CardRemovedError).
C20_FirstFailureAborts ==
  LET n == Len(rd.replies)
  IN  /\ \A i \in 1 .. (n - 1) : rd.replies[i] \in SuccessReplies
      /\ (n > 0 /\ rd.replies[n] \in FailureReplies) =>
           /\ ReadDone
           /\ Len(rd.requests) = n
           /\ ~rd.op.out.ok
           /\ rd.op.out.value = <<>>
           /\ IF rd.replies[n] = "removed"
                THEN rd.op.out = Err(CardRemovedError(NativeError("SCARD_E_NO_SMARTCARD")))
                ELSE rd.op.out.error.name = "ReadError"

\* the second request of a bulk read has met a removed card
C20_Witness ==
  /\ ReadDone
  /\ rd.replies = <<"exact", "removed">>
  /\ IsFastRead
  /\ rd.op.out.error.name = "CardRemovedError"

(***************************************************************************)
(* Properties of the tables of constants.ts.                               *)
(***************************************************************************)
\* families that the claim about TAG_DATA_RANGE lists as unsupported
UnsupportedFamilies ==
  {"MIFARE_CLASSIC_1K", "MIFARE_DESFIRE", "FELICA", "JCOP_30", "JCOP_31", "TOPAZ_512",
   "MIFARE_PLUS", "UNKNOWN"}

\* number of user-data pages of a family
UserPages(tagType) ==
  CASE tagType = "NTAG_213" -> 36
    [] tagType = "NTAG_215" -> 126
    [] tagType = "NTAG_216" -> 222
    [] tagType = "MIFARE_ULTRALIGHT" -> 12
    [] OTHER -> TAG_DATA_RANGE(tagType).pageCount

\* C21: the range of the family being read starts at page 4 and has as many
\* pages as the family has user-data pages, so that a read answered as asked
\* returns that many pages; the unsupported families have no range.
C21_RangeIsUserData ==
  /\ \A t \in UnsupportedFamilies : TAG_DATA_RANGE(t) = NoRange
  /\ rd.op.kind = "read" =>
       /\ ReadRange.startPage = 4
       /\ ReadRange.pageCount = UserPages(rd.op.tagType)
       /\ (ReadDone /\ rd.op.out.ok /\ \A i \in DOMAIN rd.replies : rd.replies[i] = "exact") =>
            Len(rd.op.out.value) = UserPages(rd.op.tagType) * PAGE_SIZE

(***************************************************************************)
(* Properties of the discovery service.                                    *)
(***************************************************************************)
\* the sessions discovered that have not emitted end
LiveSessions ==
  { id \in DOMAIN discovery.sessions : ~discovery.sessions[id].ended }

\* the session discovered last among the live sessions of a name
LatestLive(name) ==
  LET ids == { id \in LiveSessions : discovery.sessions[id].name = name }
  IN  IF ids = {} THEN NoSession ELSE CHOOSE id \in ids : \A other \in ids : other <= id

\* C22: while the service is open, the map the readers getter returns holds,
\* under each name, the live session of that name (the one discovered last
\* when a name was discovered again), and nothing under a name without one.
C22_TracksLiveSessions ==
  ~discovery.closed =>
    /\ readers(discovery).ok
    /\ \A name \in ReaderNames : readers(discovery).value[name] = LatestLive(name)

\* C23: the first call of close returns Ok and every later call Err; the
\* native handle is released and end emitted once, by the call that closes
\* (explicit, or made for the native end signal), which leaves nothing
\* tracked; once closed, the getter returns Err and no reader or error event
\* reaches a listener registered before the close.
C23_CloseOnce ==
  /\ [](/\ \A i \in DOMAIN discovery.closes : discovery.closes[i].ok <=> i = 1
        /\ discovery.released = (IF discovery.closed THEN 1 ELSE 0)
        /\ discovery.endEmits = discovery.released
        /\ discovery.closed <=> discovery.closes # <<>>
        /\ discovery.closed => ~readers(discovery).ok
        /\ \A d \in discovery.delivered :
             d.closed /\ d.event \in {"reader", "error"} => d.late)
  /\ [][discovery'.closed /\ ~discovery.closed =>
          \A name \in ReaderNames : discovery'._readers[name] = NoSession]_vars

\* the service was closed for the native end signal with a session tracked
\* and listeners registered, close was called again, and a reader was
\* signalled after that
C23_Witness ==
  /\ discovery.closed /\ discovery.nativeEnded
  /\ Len(discovery.closes) = 2
  /\ \E d \in discovery.delivered : d.event = "end"
  /\ \E d \in discovery.delivered : d.event = "reader" /\ ~d.closed
  /\ \E id \in DOMAIN discovery.sessions : discovery._readers[discovery.sessions[id].name] = id

(***************************************************************************)
(* Properties of the ACR122Reader commands.                                *)
(***************************************************************************)
CommandDone == rd.op.kind \in AcrCommands /\ rd.op.pc = "done"
Reply == controlReply(rd.replies[1])

\* C24: a command that has ended returned a Result: Err(ReaderClosedError),
\* without a transmit, when the session was closed at the call; otherwise
\* the failure of transmit itself when that is a CardRemovedError, a
\* ControlError whose cause is the failure of transmit for any other one
\* (no connection included), a ControlError for a PICC or LED response of
\* fewer than two bytes, and Ok in every other case.
C24_CommandsReturnResults ==
  CommandDone =>
    LET out == rd.op.out
    IN  IF rd.op.startedClosed
          THEN out = Err(ReaderClosedError) /\ rd.requests = <<>>
        ELSE /\ Len(rd.requests) = 1 /\ Len(rd.replies) = 1
             /\ IF ~Reply.ok
                  THEN IF Reply.error.name = "CardRemovedError" THEN out = Reply
                       ELSE /\ ~out.ok
                            /\ out.error.name = "ControlError"
                            /\ out.error.cause = Reply.error.msg
                ELSE IF rd.op.kind \in PiccCommands \cup LedCommands /\ Len(Reply.value) < 2
                  THEN ~out.ok /\ out.error.name = "ControlError"
                ELSE out.ok

\* getLedState, called on an open session, got a response of one byte, and
\* the session has been closed since
C24_Witness ==
  /\ CommandDone /\ ~rd.op.startedClosed /\ closed
  /\ rd.op.kind = "getLedState"
  /\ rd.replies = <<"one_byte">>
  /\ ~rd.op.out.ok

(***************************************************************************)
(* Properties of the functions of constants.ts.                            *)
(***************************************************************************)
\* the bit of each flag of the PICC operating parameter
FlagBit ==
  [autoPolling |-> 128, autoAtsGeneration |-> 64, shortPollingInterval |-> 32,
   detectFelica424K |-> 16, detectFelica212K |-> 8, detectIso14443B |-> 4,
   detectIso14443A |-> 2, detectMifare |-> 1]

\* C25: building the byte of a parsed byte gives the byte back, parsing the
\* byte built from a record gives the record back, and in both directions a
\* flag is set exactly when its own bit is set in the byte.
C25_PiccRoundTrip ==
  calc.fn = "picc" =>
    /\ calc.applied >= 1 =>
         /\ calc.byte \in 0 .. 255
         /\ \A f \in DOMAIN FlagBit : calc.param[f] <=> (calc.byte \div FlagBit[f]) % 2 = 1
    /\ calc.applied = 2 /\ calc.origin = "byte" => calc.byte = calc.byte0
    /\ calc.applied = 2 /\ calc.origin = "param" => calc.param = calc.param0

\* a byte with the two FeliCa bits different has gone through both functions
C25_Witness ==
  /\ calc.fn = "picc" /\ calc.origin = "byte" /\ calc.applied = 2
  /\ calc.byte0 = 16 + 128
  /\ calc.param.detectFelica424K /\ ~calc.param.detectFelica212K

\* 0-based indexes at which the marker occurs in an ATR
MarkerAt(atr) ==
  { i \in 0 .. Len(atr) - 5 : \A k \in 1 .. 5 : atr[i + k] = PCSC_RID[k] }

FirstMarker(atr) == CHOOSE i \in MarkerAt(atr) : \A j \in MarkerAt(atr) : i <= j

\* the byte at 0-based offset k after the first marker, -1 past the end
AfterMarker(atr, k) ==
  LET at == FirstMarker(atr) + 5 + k + 1
  IN  IF at <= Len(atr) THEN atr[at] ELSE -1

UnknownAtr == [standard |-> "null", type |-> "UNKNOWN"]

\* parseAtr as first described: short ATRs and ATRs without the marker are
\* unknown, and every other ATR has both lookups made, a lookup of bytes the
\* ATR does not have finding nothing.
C26_TwoCases ==
  calc.fn = "parseAtr" /\ calc.called =>
    IF Len(calc.atr) < ATR_MIN_LENGTH \/ MarkerAt(calc.atr) = {}
      THEN calc.out = UnknownAtr
    ELSE LET ss == AfterMarker(calc.atr, 0)
             msb == AfterMarker(calc.atr, 1)
             lsb == AfterMarker(calc.atr, 2)
         IN  /\ calc.out.standard = ATR_STANDARD_MAP(ss)
             /\ calc.out.type = IF msb < 0 \/ lsb < 0 THEN "UNKNOWN"
                                ELSE ATR_TAG_TYPE_MAP(msb * 256 + lsb)

\* C26: parseAtr returns for every ATR.  The result is unknown when the ATR
\* has fewer than ATR_MIN_LENGTH bytes, has no marker, or has fewer than
\* three bytes after the first marker; otherwise the standard is the lookup
\* of the byte after the first marker and the family that of the two bytes
\* after it, most significant first, neither depending on the other.
C26_ParseAtr ==
  calc.fn = "parseAtr" /\ calc.called =>
    IF \/ Len(calc.atr) < ATR_MIN_LENGTH
       \/ MarkerAt(calc.atr) = {}
       \/ AfterMarker(calc.atr, 2) < 0
      THEN calc.out = UnknownAtr
    ELSE /\ calc.out.standard = ATR_STANDARD_MAP(AfterMarker(calc.atr, 0))
         /\ calc.out.type =
              ATR_TAG_TYPE_MAP(AfterMarker(calc.atr, 1) * 256 + AfterMarker(calc.atr, 2))

\* an ATR with two markers, an unrecognised standard byte after the first
\* and the card name of a known family has been parsed
C26_Witness ==
  /\ calc.fn = "parseAtr" /\ calc.called
  /\ Cardinality(MarkerAt(calc.atr)) = 2
  /\ calc.out = [standard |-> "null", type |-> "NTAG_213"]

(***************************************************************************)
(* Properties of TypedEventEmitter.                                        *)
(***************************************************************************)
\* how many registrations of a listener for an event a registry holds
Registered(registry, event, fn) ==
  Cardinality({ i \in DOMAIN registry : registry[i].event = event /\ registry[i].fn = fn })

\* how many times an emit invoked a listener with the given arguments
Invocations(invoked, fn, args) ==
  Cardinality({ i \in DOMAIN invoked : invoked[i] = [fn |-> fn, args |-> args] })

\* C27: every call does what is said of it.  emit invokes the listeners
\* registered for its event, once per registration and with its arguments,
\* and nobody else, returns true if and only if there was one, and leaves
\* no once-registration of the event; off takes away one registration of
\* its listener and no other; removeAllListeners(e) takes away those of e
\* and removeAllListeners() all; listenerCount(e) is the number registered.
C27_EmitterContract ==
  [][LET call == ee'.last
         e == call.event
     IN  /\ call.op = "emit" =>
              /\ \A fn \in Functions, args \in Payloads :
                   Invocations(call.invoked, fn, args) =
                     IF args = call.fn THEN Registered(ee.registry, e, fn) ELSE 0
              /\ call.returned = IF listenersOf(ee.registry, e) # <<>> THEN "true" ELSE "false"
              /\ \A i \in DOMAIN ee'.registry : ~(ee'.registry[i].event = e /\ ee'.registry[i].once)
              /\ SelectSeq(ee.registry, LAMBDA r : r.event # e \/ ~r.once) = ee'.registry
         /\ call.op = "off" =>
              \A event \in EmitterEvents, fn \in Functions :
                Registered(ee'.registry, event, fn) =
                  IF event = e /\ fn = call.fn /\ Registered(ee.registry, event, fn) > 0
                    THEN Registered(ee.registry, event, fn) - 1
                    ELSE Registered(ee.registry, event, fn)
         /\ call.op = "removeAllListeners" =>
              \A event \in EmitterEvents :
                listenersOf(ee'.registry, event) =
                  IF e \in {event, "undefined"} THEN <<>> ELSE listenersOf(ee.registry, event)
         /\ call.op = "listenerCount" =>
              /\ call.returned = ToString(Len(listenersOf(ee.registry, e)))
              /\ ee'.registry = ee.registry]_vars

(***************************************************************************)
(* Properties of tag identification.                                       *)
(***************************************************************************)
TagTypes ==
  {"MIFARE_CLASSIC_1K", "MIFARE_CLASSIC_4K", "MIFARE_ULTRALIGHT", "MIFARE_ULTRALIGHT_C",
   "MIFARE_ULTRALIGHT_EV1", "TOPAZ_512", "NTAG_203", "NTAG_210", "NTAG_212", "NTAG_213",
   "NTAG_215", "NTAG_216", "FELICA", "JCOP_30", "JCOP_31", "MIFARE_DESFIRE", "MIFARE_PLUS",
   "UNKNOWN"}

\* the (product type, storage size) pairs of the version table
KnownVersions == {<<4, 6>>, <<4, 10>>, <<4, 15>>, <<4, 17>>, <<4, 19>>, <<3, 11>>, <<3, 14>>}

Identifying == rd.op.kind = "identify"
Identified == Identifying /\ rd.op.pc = "hci_range"
AtrFamily == parseAtr(rd.op.atr).type

\* C28: identification asks for the version only of a tag whose ATR names
\* an Ultralight family, and only once; it ends with a family in every
\* case, and with the family of the ATR when transmit failed, the status
\* word was not 9000, the response did not begin D5 43 00, fewer than seven
\* version bytes came, or the pair of bytes is not in the version table.
C28_IdentifyKeepsAtrFamily ==
  Identifying =>
    /\ rd.op.pc \in {"transmit", "hci_range"}
    /\ \A i \in DOMAIN rd.requests : rd.requests[i] = CMD_GET_VERSION
    /\ Len(rd.requests) <= 1
    /\ rd.requests # <<>> =>
         AtrFamily \in {"MIFARE_ULTRALIGHT", "MIFARE_ULTRALIGHT_C", "MIFARE_ULTRALIGHT_EV1"}
    /\ Identified =>
         /\ rd.op.tagType \in TagTypes
         /\ rd.requests = <<>> => rd.op.tagType = AtrFamily
         /\ rd.requests # <<>> =>
              LET r == rd.replies[1]
              IN  (r.kind # "version" \/ r.length < 7 \/ <<r.product, r.storage>> \notin KnownVersions)
                    => rd.op.tagType = AtrFamily

\* an Ultralight C by its ATR got a response with a PN532 error status
\* and kept its family
C28_Witness ==
  /\ Identified
  /\ AtrFamily = "MIFARE_ULTRALIGHT_C"
  /\ rd.replies # <<>> /\ rd.replies[1].kind = "pn532_error"
  /\ rd.op.tagType = "MIFARE_ULTRALIGHT_C"

(***************************************************************************)
(* Properties of reader control.                                           *)
(***************************************************************************)
\* how many times the listeners of a role have sent the buzzer command
BuzzerAttempts(bound, role) ==
  Cardinality({ i \in DOMAIN bound[role].commands :
                  bound[role].commands[i].command = "setBuzzerOnCardDetection" })

\* C29: a reader that is not an ACR122Reader is sent no command, and no
\* buzzer command is sent once one has succeeded; a card event sends the
\* buzzer command exactly when the reader is an ACR122Reader, the token was
\* decoded and published as Present, and no buzzer command has succeeded;
\* a returning buzzer command, failed or not, changes nothing published.
C29_BuzzerUntilSuccess ==
  /\ [](\A role \in ReaderRoles :
          LET c == control.readers[role]
          IN  /\ c.class # "ACR122Reader" => c.commands = <<>>
              /\ \A i \in DOMAIN c.commands :
                   c.commands[i].command = "setBuzzerOnCardDetection"
                     => ~c.commands[i].completed)
  /\ [][LET step == control'.last
            role == step.role
        IN  /\ step.op = "card" =>
                 BuzzerAttempts(control'.readers, role) - BuzzerAttempts(control.readers, role)
                   = IF /\ control.readers[role].class = "ACR122Reader"
                        /\ readerStates'[role].state = TokenStateType("PRESENT")
                        /\ ~control.readers[role].buzzerDisablingCompleted
                       THEN 1 ELSE 0
            /\ step.op = "buzzer" =>
                 /\ UNCHANGED <<readerStates, published, lastStateMessage, clients>>
                 /\ control'.readers[role].buzzerDisablingCompleted
                      = (step.ok \/ control.readers[role].buzzerDisablingCompleted)]_vars

\* an ACR122Reader whose first buzzer command failed after its token was
\* published, and whose second succeeded
C29_Witness ==
  \E role \in ReaderRoles :
    LET c == control.readers[role]
    IN  /\ c.class = "ACR122Reader"
        /\ BuzzerAttempts(control.readers, role) = 2
        /\ c.buzzerDisablingCompleted
        /\ control.last = [op |-> "buzzer", role |-> role, ok |-> TRUE]
        /\ readerStates[role].state = TokenStateType("PRESENT")

(***************************************************************************)
(* Properties of a reader session bound to a role.                         *)
(***************************************************************************)
\* the session has handled the signal that the tag is gone, and nothing it
\* began is left to complete
RemovedAndIdle ==
  /\ ~closed /\ crashed = "none"
  /\ readerState = {"EMPTY"}
  /\ \A p \in Procs : ops[p].pc \in {"free", "done"}

\* the last event the listeners of the role received came from a tag: from
\* its arrival, its detect sequence or its removal, not from the native reader
LastEventOfATag ==
  /\ events # <<>>
  /\ LET last == events[Len(events)]
     IN  last.ev = "error" => last.error.name # NativeError("SCARD_E_OTHER").name

\* C30: once a tag has been removed and the session has nothing left to do,
\* the state published for the role is Absent, also when the detect sequence
\* before the removal had failed and recorded no card.
C30_AbsentAfterRemoval ==
  (RemovedAndIdle /\ LastEventOfATag)
    => readerStates[BoundRole].state = TokenStateType("ABSENT")

\* the state of the bound role in the latest published snapshot
LatestState == Deref(lastStateMessage)[BoundRole]

\* C31: whenever the latest published snapshot shows a token as present for
\* the role, the role's session is open and the card it has recorded has the
\* uid of that token; a session that has ended leaves no token present.
C31_PresentHasOpenSession ==
  LatestState.state = TokenStateType("PRESENT")
    => (~closed /\ card # NoCard /\ card.uid = LatestState.token.id)

(***************************************************************************)
(* Properties of the recorded card and of the order of a session's events. *)
(***************************************************************************)
\* C32: whenever the session records a card, the session is open and the
\* latest status signal of the reader reported a card present; a detect
\* sequence that finishes after a card-absent signal or after close()
\* records no card.
C32_CardOnlyWhilePresent ==
  card # NoCard => (~closed /\ "PRESENT" \in readerState)

\* the events of a kind that the task just done has emitted
EmittedNow(ev) == { i \in DOMAIN emitted' : emitted'[i].ev = ev }

\* C33: card and card.off events of a session alternate, starting with card.
\* The session records the card of a card event until the card.off that
\* carries it, so a card event is emitted only while no card is recorded,
\* and a card.off only for the card that is recorded.
C33_CardEventsAlternate ==
  [][ /\ EmittedNow("card") # {} => card = NoCard
      /\ \A i \in EmittedNow("card.off") : emitted'[i].card = card /\ card # NoCard ]_vars

\* the outcomes of a detect sequence that the task just done has delivered
Outcomes(p) ==
  { i \in DOMAIN emitted' : /\ emitted'[i].src = p
                            /\ emitted'[i].ev \in {"card", "error"}
                            /\ emitted'[i].delivered }

\* the detect sequence of a card.on that listeners have heard is in progress
Detecting(p) ==
  /\ ops[p].kind = "detect" /\ ops[p].pc \in Waiting
  /\ "card.on" \in listeners

C35_CommandsDoNotOverlap ==
  InFlight("vendor") = {} \/ InFlight("detect") = {}

(***************************************************************************)
(* The token store of the renderer: what it makes of the data of a         *)
(* WebSocket message.                                                      *)
(***************************************************************************)
\* index of the "}" that closes the object whose content begins at i
RECURSIVE closing(_, _, _)
closing(data, i, depth) ==
  IF data[i] = "{" THEN closing(data, i + 1, depth + 1)
  ELSE IF data[i] # "}" THEN closing(data, i + 1, depth)
  ELSE IF depth = 1 THEN i
  ELSE closing(data, i + 1, depth - 1)

\* index of the value of a property among the members from i up to j (0: none)
RECURSIVE member(_, _, _, _)
member(data, i, j, key) ==
  IF i >= j THEN 0
  ELSE IF data[i] = key THEN i + 1
  ELSE member(data, (IF data[i + 1] = "{" THEN closing(data, i + 2, 1) ELSE i + 1) + 1,
              j, key)

\* a property of the object that begins with the "{" at i: a string, the index
\* of the "{" of an object, or undefined
property(data, i, key) ==
  LET at == IF i = 0 THEN 0 ELSE member(data, i + 1, closing(data, i + 1, 1), key)
  IN  IF at = 0 THEN [kind |-> "undefined", string |-> Undefined, at |-> 0]
      ELSE IF data[at] = "{" THEN [kind |-> "object", string |-> Undefined, at |-> at]
      ELSE [kind |-> "string", string |-> data[at], at |-> 0]

\* TokenErrorTypeNFCSchema: a union of the number literals 0 to 4.  The
\* server sends strings; Value.Parse converts a string to a number literal
\* only when it spells that number.
TokenErrorTypeNFCSchema(value) ==
  value.kind = "string" /\ value.string \in {"0", "1", "2", "3", "4"}

\* TokenSchema and TokenErrorNFCSchema
TokenSchema(data, value) ==
  /\ value.kind = "object"
  /\ property(data, value.at, "id").kind = "string"
  /\ property(data, value.at, "class").kind = "string"
TokenErrorNFCSchema(data, value) ==
  /\ value.kind = "object"
  /\ TokenErrorTypeNFCSchema(property(data, value.at, "type"))
  /\ property(data, value.at, "details").kind = "string"

\* TokenStateNFCSchema: the union discriminated by state
TokenStateNFCSchema(data, value) ==
  /\ value.kind = "object"
  /\ LET state == property(data, value.at, "state")
     IN  /\ state.kind = "string"
         /\ CASE state.string \in {"absent", "reading"} -> TRUE
              [] state.string = "present" ->
                   TokenSchema(data, property(data, value.at, "token"))
              [] state.string = "error" ->
                   TokenErrorNFCSchema(data, property(data, value.at, "error"))
              [] OTHER -> FALSE

\* TokenReaderMessageSchema
TokenReaderMessageSchema(data) ==
  /\ TokenStateNFCSchema(data, property(data, 1, "inventory"))
  /\ TokenStateNFCSchema(data, property(data, 1, "challenge"))

\* what the store shows for a role of a message it has accepted
parsedState(data, role) ==
  LET value == property(data, 1, role)
      token == property(data, value.at, "token")
      error == property(data, value.at, "error")
      state == property(data, value.at, "state").string
  IN  [state |-> state,
       token |-> IF state = "present"
                   THEN [id |-> property(data, token.at, "id").string,
                         class |-> property(data, token.at, "class").string]
                   ELSE NoToken,
       error |-> IF state = "error"
                   THEN [type |-> property(data, error.at, "type").string,
                         details |-> property(data, error.at, "details").string]
                   ELSE NoTokenError]

\* initialState of the store
initialState == [r \in ReaderRoles |-> [state |-> "absent", token |-> NoToken,
                                        error |-> NoTokenError]]

\* tokenState of useTokenStore for the data last received
tokenState(data) ==
  IF TokenReaderMessageSchema(data)
    THEN [r \in ReaderRoles |-> parsedState(data, r)]
    ELSE initialState

\* the states of the roles in a snapshot the server has published
PublishedStates(value) ==
  [r \in ReaderRoles |-> [state |-> value[r].state, token |-> value[r].token,
                          error |-> value[r].error]]

\* C36: every message the server has sent to a client is accepted by the
\* schema of the client, and the store shows for each role the state that the
\* message was made from, an Error state included.
C36_ClientShowsServerState ==
  \A c \in Clients :
    \A i \in DOMAIN clients[c].sent :
      /\ TokenReaderMessageSchema(clients[c].sent[i])
      /\ \E k \in 0..Len(published) :
           LET value == IF k = 0 THEN createInitialState ELSE published[k].value
           IN  /\ clients[c].sent[i] = JSONstringify(value)
               /\ tokenState(clients[c].sent[i]) = PublishedStates(value)

(***************************************************************************)
(* Properties of the PICC control of the 'card' listener.                  *)
(***************************************************************************)
PiccAttempts(bound, role) ==
  Cardinality({ i \in DOMAIN bound[role].commands :
                  bound[role].commands[i].command = "setPiccOperatingParameter" })

\* C37: once setPiccOperatingParameter has returned success to the listener
\* of a role, the command is not sent again for that role: the step after a
\* success sends none.
C37_PiccSetOnce ==
  [][ (control.last.op = "picc" /\ control.last.ok)
        => PiccAttempts(control'.readers, control.last.role)
             = PiccAttempts(control.readers, control.last.role) ]_vars

(***************************************************************************)
(* Widths of the read commands.                                            *)
(***************************************************************************)
\* the families the version table produces
VersionFamilies ==
  { VERSION_TAG_TYPE_MAP(pair[1] * 256 + pair[2]) : pair \in KnownVersions }

\* last page of the range of a family
endPageOf(tagType) ==
  TAG_DATA_RANGE(tagType).startPage + TAG_DATA_RANGE(tagType).pageCount - 1

\* responseMaxLength of the FAST_READ request for the pages of a frame
responseMaxLength(cmd) == (LastPage(cmd) - FirstPage(cmd) + 1) * PAGE_SIZE + 3 + 2

\* the pages the read means its i-th request to cover, as numbers of any size
MeantFirst(i) ==
  ReadRange.startPage + (i - 1) * (IF IsFastRead THEN FAST_READ_MAX_PAGES ELSE 1)
MeantLast(i) ==
  IF IsFastRead THEN chunkEnd(MeantFirst(i), endPageOf(rd.op.tagType)) ELSE MeantFirst(i)

\* C38: every family of FAST_READ_TAG_TYPES and every family the version
\* table produces has a range; the last page of every range is at most 255;
\* every request of a read carries in its frame the page numbers (and, for
\* READ BINARY, the length) the read meant, none cut to its low byte; and
\* the response limit of every FAST_READ request is at most
\* DEFAULT_RESPONSE_MAX_LENGTH.
C38_FramesFitAByte ==
  /\ \A t \in FAST_READ_TAG_TYPES \cup VersionFamilies : TAG_DATA_RANGE(t) # NoRange
  /\ \A t \in TagTypes : TAG_DATA_RANGE(t) # NoRange => endPageOf(t) <= 255
  /\ rd.op.kind = "read" =>
       \A i \in DOMAIN rd.requests :
         /\ FirstPage(rd.requests[i]) = MeantFirst(i)
         /\ LastPage(rd.requests[i]) = MeantLast(i)
         /\ CmdKind(rd.requests[i]) = "READ_BINARY" => rd.requests[i][5] = PAGE_SIZE
         /\ CmdKind(rd.requests[i]) = "FAST_READ" =>
              responseMaxLength(rd.requests[i]) <= DEFAULT_RESPONSE_MAX_LENGTH

\* the last request of a read of the largest family asks for pages up to
\* 225, after three requests of the full chunk size
C38_Witness ==
  /\ rd.op.kind = "read"
  /\ rd.op.tagType = "NTAG_216"
  /\ Len(rd.requests) = 4
  /\ responseMaxLength(rd.requests[1]) = 245
  /\ LastPage(rd.requests[4]) = 225
  /\ rd.op.pc = "transmit"

====
